---- MODULE Spec2Model ----
(***************************************************************************)
(* Model of juno's Layer-1 synchronizer (package starknet):                *)
(*   - FetchStarknetState: the dispatch loop that fills GpsVerifier,        *)
(*     MemoryPageHash and the pending queue s.facts, the poller goroutine   *)
(*     that hands the head fact to processMemoryPages, and the              *)
(*     processMemoryPages goroutines themselves (specification Spec);       *)
(*   - loadEvents: backfill in MaxChunk windows followed by the live        *)
(*     subscription (specification LoadSpec);                               *)
(*   - fastSync: the loop over the feeder gateway's state updates and the   *)
(*     goroutine started per block (specification SyncSpec);                *)
(*   - latestBlockQueried / updateLatestBlockQueried, the checkpoint under  *)
(*     the key latestBlockSynced (specification StoreSpec);                 *)
(*   - contractState (CommitSpec), Close during loadEvents (CloseSpec),     *)
(*     UpdateState with the returns of FetchStarknetState (StateSpec),      *)
(*     FetchStarknetFact (FactSpec), and the contract hash keys of          *)
(*     remove0x, storeContractHash and loadContractHash (HashSpec).         *)
(* Goroutines are interleaved one statement group at a time; a group never  *)
(* spans a lock operation, a channel operation or a network call.           *)
(***************************************************************************)
EXTENDS Integers, Sequences, FiniteSets, TLC

VARIABLES
    facts,            \* s.facts: the pending queue of fact hashes
    GpsVerifier,      \* s.GpsVerifier: fact hash -> page-hash sequence
    MemoryPageHash,   \* s.MemoryPageHash: page hash -> carrying transaction hash
    lock,             \* s.lock: "free" or the task that holds it
    dispatchPc,       \* position of the dispatch loop of FetchStarknetState
    l,                \* the eventStruct the dispatch loop is handling
    pollerPc,         \* position of the poller goroutine
    jobs,             \* the processMemoryPages goroutines, in start order
    observed,         \* history: every fact hash appended to s.facts, in order
    chainId,          \* what ethereumClient.ChainID answers
    chainHead,        \* the L1 chain's current head block
    logBlocks,        \* the blocks that hold a log of a watched contract
    loadPc,           \* position of loadEvents
    latestBlockNumber, \* loadEvents' local: the head read when it starts
    i,                \* loadEvents' local: first block of the next backfill window
    hLog,             \* the subscription's channel: logs delivered, not yet received
    emitted,          \* history: what loadEvents sent on eventChan, in order
    filterFailed,     \* history: a FilterLogs call of the backfill has failed
    undecodable,      \* the blocks whose log UnpackIntoMap cannot decode
    sub,              \* the subscription: "none", "open", "failed" (error waiting on
                      \* sub.Err()) or "dead" (error taken, nothing re-established)
    fetched,          \* history: the logs FilterLogs returned and hLog handed over
    queried,          \* history: the FilterLogs queries of the backfill, in order
    closeCalled,      \* Synchronizer.Close has been called
    clientClosed,     \* s.ethereumClient has been closed
    offTopic,         \* the blocks whose log has a first topic that is none of the
                      \* three event signatures of the backfill query
    starknetLogs,     \* loadEvents' and FetchStarknetFact's local: the logs of the
                      \* window in hand that decode and are still to be sent
    vLog,             \* loadEvents' local: the log taken from hLog that decodes and is
                      \* still to be sent (a sequence of at most one log)
    db,               \* the value the database holds under the key latestBlockSynced
    syncPc,           \* position of fastSync
    blockIterator,    \* fastSync's local blockIterator
    lastBlockHash,    \* fastSync's local lastBlockHash
    update,           \* what GetStateUpdate answered to the call in progress
    newValueForIterator, \* fastSync's local: first result of updateStateForOneBlock
    newBlockHash,     \* fastSync's local: second result of updateStateForOneBlock
    syncJobs,         \* the goroutines updateStateForOneBlock started, in start order
    saves,            \* history: the heights stored by fastSync's goroutines, in order
    lastSave,         \* the last call of updateLatestBlockQueried made directly
    lastLoad,         \* the call of latestBlockQueried made directly after it
    contractHash,     \* contractState's first argument
    storageRoot,      \* contractState's second argument
    failAt,           \* which of contractState's Digest calls fails (0: none)
    commitPc,         \* position of the caller of contractState
    val,              \* what contractState returned
    checked,          \* the poller's last successful test: the head it saw ready
    fetchPc,          \* position of FetchStarknetState as UpdateState calls it
    fetchErr,         \* what FetchStarknetState returned
    eventClosed,      \* close(event) has run in the ingestion goroutine
    updatePc,         \* position of UpdateState
    updateErr,        \* what UpdateState returned
    factPc,           \* position of FetchStarknetFact
    factErr,          \* what FetchStarknetFact returned
    factSent,         \* history: the factChan values sent on the channel fact, in order
    contractHashes,   \* the contract hash service's table: key -> value
    hashStored,       \* the call of storeContractHash made
    hashLoaded        \* the last call of loadContractHash made after it

resVars == <<facts, GpsVerifier, MemoryPageHash, lock, dispatchPc, l, pollerPc,
             jobs, observed>>

loadVars == <<chainId, chainHead, logBlocks, loadPc, latestBlockNumber, i, hLog,
              emitted, filterFailed, undecodable, sub, fetched, queried, closeCalled,
              clientClosed, offTopic, starknetLogs, vLog>>

syncVars == <<db, syncPc, blockIterator, lastBlockHash, update, newValueForIterator,
              newBlockHash, syncJobs, saves, lastSave, lastLoad>>

commitVars == <<contractHash, storageRoot, failAt, commitPc, val>>

stateVars == <<fetchPc, fetchErr, eventClosed, updatePc, updateErr>>

factVars == <<factPc, factErr, factSent>>

hashVars == <<contractHashes, hashStored, hashLoaded>>

extVars == <<checked, stateVars, factVars, hashVars>>

vars == <<resVars, loadVars, syncVars, commitVars, extVars>>

(***************************************************************************)
(* Inputs and bounds                                                       *)
(***************************************************************************)
Facts == {"f1", "f2"}
Pages == {"p1", "p2"}
Txs == {"t1", "t2"}
PageSets == {<< >>, <<"p1">>, <<"p1", "p2">>}
\* at most this many stateTransitionFact events are appended in one run
MaxObserved == 2

\* the chain observed spans this many backfill windows above the deployment floor
MaxWindows == 2
\* at most this many logs on the observed chain
MaxLogs == 2

Nil == "nil"

blockOfStarknetDeploymentContractMainnet == 13627000
blockOfStarknetDeploymentContractGoerli == 5853000
MaxChunk == 10000

(***************************************************************************)
(* base.Dictionary (pkg/common): a string-keyed table with Add, Exist, Get. *)
(***************************************************************************)
EmptyDictionary == << >>

DictAdd(d, k, v) == [x \in (DOMAIN d) \cup {k} |-> IF x = k THEN v ELSE d[x]]

DictExist(d, k) == k \in DOMAIN d

DictGet(d, k) == IF k \in DOMAIN d THEN d[k] ELSE Nil

(***************************************************************************)
(* Events as the ABI decoder returns them: a map from field name to value,  *)
(* with the hash of the transaction whose log carried the event.           *)
(***************************************************************************)
LogMemoryPagesHashes ==
    {[event |-> [factHash |-> f, pagesHashes |-> ps], transactionHash |-> "t1"] :
        f \in Facts, ps \in PageSets}

LogMemoryPageFactContinuous ==
    {[event |-> [factHash |-> "f1", memoryHash |-> p, prod |-> 0], transactionHash |-> t] :
        p \in Pages, t \in Txs}

LogStateTransitionFact ==
    {[event |-> [stateTransitionFact |-> f], transactionHash |-> "t1"] : f \in Facts}

Events == LogMemoryPagesHashes \cup LogMemoryPageFactContinuous \cup LogStateTransitionFact

NoEvent == [event |-> << >>, transactionHash |-> Nil]

Has(e, field) == field \in DOMAIN e.event

(***************************************************************************)
(* The checkpoint: the height kept under the key latestBlockSynced as 8     *)
(* big-endian bytes, read by latestBlockQueried and written by              *)
(* updateLatestBlockQueried. Both exist twice: as methods of Synchronizer   *)
(* (s_...) and as functions of the package.                                 *)
(***************************************************************************)
\* the n low-order bytes of v, most significant first
RECURSIVE BigEndian(_, _)
BigEndian(v, n) ==
    IF n = 0 THEN << >> ELSE BigEndian(v \div 256, n - 1) \o <<v % 256>>

\* b := make([]byte, 8); binary.BigEndian.PutUint64(b, v)
PutUint64(v) == BigEndian(v, 8)

\* the unsigned integer a big-endian byte sequence stands for
RECURSIVE Uint(_)
Uint(bs) ==
    IF bs = << >> THEN 0
    ELSE Uint(SubSeq(bs, 1, Len(bs) - 1)) * 256 + bs[Len(bs)]

\* binary.Read(buf, binary.BigEndian, &ret) with ret a uint64: 8 bytes are taken
\* from the buffer; with fewer in it the read fails (io.EOF, io.ErrUnexpectedEOF)
binaryRead(bs) ==
    IF Len(bs) < 8 THEN [err |-> TRUE, ret |-> 0]
    ELSE [err |-> FALSE, ret |-> Uint(SubSeq(bs, 1, 8))]

\* what Get returns for the key: nothing, or the bytes stored
NoValue == [present |-> FALSE, bytes |-> << >>]
Value(bs) == [present |-> TRUE, bytes |-> bs]

\* a latestBlockQueried that hands a missing value to binary.Read
latestBlockQueriedNoNilCheck(getErr, get) ==
    IF getErr THEN [height |-> 0, err |-> TRUE]
    ELSE LET r == binaryRead(get.bytes)
         IN IF r.err THEN [height |-> 0, err |-> TRUE]
            ELSE [height |-> r.ret, err |-> FALSE]

\* latestBlockQueried(database), the function of the package
latestBlockQueried(getErr, get) ==
    IF getErr THEN [height |-> 0, err |-> TRUE]
    ELSE IF ~get.present THEN [height |-> 0, err |-> FALSE]
    ELSE LET r == binaryRead(get.bytes)
         IN IF r.err THEN [height |-> 0, err |-> TRUE]
            ELSE [height |-> r.ret, err |-> FALSE]

\* (s *Synchronizer) latestBlockQueried()
s_latestBlockQueried(getErr, get) ==
    IF getErr THEN [height |-> 0, err |-> TRUE]
    ELSE IF ~get.present THEN [height |-> 0, err |-> FALSE]
    ELSE LET r == binaryRead(get.bytes)
         IN IF r.err THEN [height |-> 0, err |-> TRUE]
            ELSE [height |-> r.ret, err |-> FALSE]

\* updateLatestBlockQueried(database, block), the function of the package: the
\* bytes it puts under the key
updateLatestBlockQueried(block) == PutUint64(block + 1)

\* (s *Synchronizer) updateLatestBlockQueried(block): the bytes it puts under the key
s_updateLatestBlockQueried(block) == PutUint64(block)

\* feeder.StateUpdateResponse as far as fastSync looks at it, with the error
\* GetStateUpdate returned beside it
NoUpdate == [err |-> TRUE, BlockHash |-> "", DeployedContracts |-> << >>]

NoSave == [impl |-> "none", block |-> 0, err |-> TRUE]
NoLoad == [impl |-> "none", getErr |-> TRUE, stored |-> NoValue, height |-> 0, err |-> TRUE]

\* a field element given from outside, and the field element 0
Elems == {<<0>>, <<1>>, <<2>>, <<3>>, <<4>>}
Zero == <<0>>
NoVal == << >>

\* contractState not called
CommitIdle ==
    /\ contractHash = Zero
    /\ storageRoot = Zero
    /\ failAt = 0
    /\ commitPc = "idle"
    /\ val = NoVal

\* fastSync not running and no checkpoint call made
SyncIdle ==
    /\ db = NoValue
    /\ syncPc = "idle"
    /\ blockIterator = 0
    /\ lastBlockHash = ""
    /\ update = NoUpdate
    /\ newValueForIterator = 0
    /\ newBlockHash = ""
    /\ syncJobs = << >>
    /\ saves = << >>
    /\ lastSave = NoSave
    /\ lastLoad = NoLoad

\* the poller has not yet found the head of the queue ready
NoCheck == [fact |-> Nil, len |-> 0]

PollIdle == checked = NoCheck

\* UpdateState not called
StateIdle ==
    /\ fetchPc = "idle"
    /\ fetchErr = Nil
    /\ eventClosed = FALSE
    /\ updatePc = "idle"
    /\ updateErr = Nil

\* FetchStarknetFact not called
FactIdle ==
    /\ factPc = "idle"
    /\ factErr = Nil
    /\ factSent = << >>

\* the contract hash service's table with nothing stored
NoContractHashes == << >>

NoHashCall == [made |-> FALSE, key |-> << >>, value |-> 0]

\* no contract hash stored or loaded
HashIdle ==
    /\ contractHashes = NoContractHashes
    /\ hashStored = NoHashCall
    /\ hashLoaded = NoHashCall

ExtIdle == PollIdle /\ StateIdle /\ FactIdle /\ HashIdle

(***************************************************************************)
(* Initial state: the Synchronizer as NewSynchronizer builds it, with the   *)
(* three goroutines of FetchStarknetState about to run.                    *)
(***************************************************************************)
Init ==
    /\ facts = << >>
    /\ GpsVerifier = EmptyDictionary
    /\ MemoryPageHash = EmptyDictionary
    /\ lock = "free"
    /\ dispatchPc = "recv"
    /\ l = NoEvent
    /\ pollerPc = "tick"
    /\ jobs = << >>
    /\ observed = << >>
    /\ chainId = [err |-> TRUE, id |-> 0]
    /\ chainHead = 0
    /\ logBlocks = {}
    /\ undecodable = {}
    /\ sub = "none"
    /\ fetched = << >>
    /\ queried = << >>
    /\ closeCalled = FALSE
    /\ clientClosed = FALSE
    /\ offTopic = {}
    /\ starknetLogs = << >>
    /\ vLog = << >>
    /\ SyncIdle
    /\ CommitIdle
    /\ ExtIdle
    /\ loadPc = "idle"
    /\ latestBlockNumber = 0
    /\ i = 0
    /\ hLog = << >>
    /\ emitted = << >>
    /\ filterFailed = FALSE

\* a panic in any goroutine ends the process
Crashed == \E j \in DOMAIN jobs : jobs[j].state = "panicked"

(***************************************************************************)
(* The dispatch loop of FetchStarknetState                                 *)
(***************************************************************************)
HasTableFields(e) ==
    (Has(e, "factHash") /\ Has(e, "pagesHashes")) \/ Has(e, "memoryHash")

AfterTables(e) == IF Has(e, "stateTransitionFact") THEN "lock" ELSE "recv"

AfterRecv(e) == IF HasTableFields(e) THEN "tables" ELSE AfterTables(e)

\* case l, ok := <-event
DispatchRecv ==
    /\ ~Crashed
    /\ dispatchPc = "recv"
    /\ \E e \in Events :
        /\ Has(e, "stateTransitionFact") => Len(observed) < MaxObserved
        /\ l' = e
        /\ dispatchPc' = AfterRecv(e)
    /\ UNCHANGED <<facts, GpsVerifier, MemoryPageHash, lock, pollerPc, jobs, observed, loadVars, syncVars, commitVars, extVars>>

\* variant: the GpsVerifier insert made for every event that carries a factHash
DispatchTablesEitherField ==
    /\ ~Crashed
    /\ dispatchPc = "tables"
    /\ GpsVerifier' =
          IF Has(l, "factHash")
          THEN DictAdd(GpsVerifier, l.event.factHash,
                       IF Has(l, "pagesHashes") THEN l.event.pagesHashes ELSE << >>)
          ELSE GpsVerifier
    /\ MemoryPageHash' =
          IF Has(l, "memoryHash")
          THEN DictAdd(MemoryPageHash, l.event.memoryHash, l.transactionHash)
          ELSE MemoryPageHash
    /\ dispatchPc' = AfterTables(l)
    /\ l' = IF AfterTables(l) = "recv" THEN NoEvent ELSE l
    /\ UNCHANGED <<facts, lock, pollerPc, jobs, observed, loadVars, syncVars, commitVars, extVars>>

\* the two table inserts; s.lock is not taken
DispatchTables ==
    /\ ~Crashed
    /\ dispatchPc = "tables"
    /\ GpsVerifier' =
          IF Has(l, "factHash") /\ Has(l, "pagesHashes")
          THEN DictAdd(GpsVerifier, l.event.factHash, l.event.pagesHashes)
          ELSE GpsVerifier
    /\ MemoryPageHash' =
          IF Has(l, "memoryHash")
          THEN DictAdd(MemoryPageHash, l.event.memoryHash, l.transactionHash)
          ELSE MemoryPageHash
    /\ dispatchPc' = AfterTables(l)
    /\ l' = IF AfterTables(l) = "recv" THEN NoEvent ELSE l
    /\ UNCHANGED <<facts, lock, pollerPc, jobs, observed, loadVars, syncVars, commitVars, extVars>>

\* s.lock.Lock()
DispatchLock ==
    /\ ~Crashed
    /\ dispatchPc = "lock"
    /\ lock = "free"
    /\ lock' = "dispatch"
    /\ dispatchPc' = "append"
    /\ UNCHANGED <<facts, GpsVerifier, MemoryPageHash, l, pollerPc, jobs, observed, loadVars, syncVars, commitVars, extVars>>

\* variant: the dispatch loop puts the new fact at the head of the queue
DispatchPrepend ==
    /\ ~Crashed
    /\ dispatchPc = "append"
    /\ facts' = <<l.event.stateTransitionFact>> \o facts
    /\ observed' = Append(observed, l.event.stateTransitionFact)
    /\ lock' = "free"
    /\ dispatchPc' = "recv"
    /\ l' = NoEvent
    /\ UNCHANGED <<GpsVerifier, MemoryPageHash, pollerPc, jobs, loadVars, syncVars, commitVars, extVars>>

\* s.facts = append(s.facts, ...); s.lock.Unlock()
DispatchAppend ==
    /\ ~Crashed
    /\ dispatchPc = "append"
    /\ facts' = Append(facts, l.event.stateTransitionFact)
    /\ observed' = Append(observed, l.event.stateTransitionFact)
    /\ lock' = "free"
    /\ dispatchPc' = "recv"
    /\ l' = NoEvent
    /\ UNCHANGED <<GpsVerifier, MemoryPageHash, pollerPc, jobs, loadVars, syncVars, commitVars, extVars>>

(***************************************************************************)
(* The poller goroutine of FetchStarknetState                              *)
(***************************************************************************)
\* variant: the poller takes the head without asking GpsVerifier for its page set
HeadNonEmpty(q, g) == Len(q) > 0

\* variant: the poller goes ahead as soon as any queued fact has its page set
AnyReady(q, g) == \E k \in DOMAIN q : DictExist(g, q[k])

\* len(s.facts) != 0 and s.GpsVerifier.Exist(s.facts[0]), both read without s.lock
HeadReady(q, g) == Len(q) > 0 /\ DictExist(g, q[1])

\* variant: the poller drops the newest fact of the queue
PopBack(q) == SubSeq(q, 1, Len(q) - 1)

\* s.facts[1:]
PopFront(q) == Tail(q)

\* variant: processMemoryPages called in place, so the caller goes on only when
\* the call has returned
CallReturns(js) == js # << >> /\ js[Len(js)].state \in {"resolved", "failed"}

\* the go statement does not wait for the goroutine it starts
GoReturns(js) == TRUE

\* variant: the poller loops back to its ticker after starting a fact
PollerKeepsPolling == "tick"

\* the return that follows s.lock.Unlock() ends the poller goroutine
PollerAfterStart == "returned"

\* the goroutine `go s.processMemoryPages(fact)` starts; pagesKnown and depsKnown
\* record what the tables held at that moment
NewJob(fact, g, m) ==
    [fact |-> fact, state |-> "start", memoryPages |-> << >>, fetched |-> 0,
     pagesKnown |-> DictExist(g, fact),
     depsKnown |-> DictExist(g, fact) /\
                   \A k \in DOMAIN DictGet(g, fact) : DictExist(m, DictGet(g, fact)[k])]

\* case <-ticker.C: the two tests of the tick. s.lock is not held, so the reads are
\* not ordered with the dispatch loop's append: the step may fall before or after it
PollerTick ==
    /\ ~Crashed
    /\ pollerPc = "tick"
    /\ pollerPc' = IF HeadReady(facts, GpsVerifier) THEN "lock" ELSE "tick"
    /\ checked' = IF HeadReady(facts, GpsVerifier)
                  THEN [fact |-> facts[1], len |-> Len(facts)]
                  ELSE checked
    /\ UNCHANGED <<facts, GpsVerifier, MemoryPageHash, lock, dispatchPc, l, jobs, observed, loadVars, syncVars, commitVars, stateVars, factVars, hashVars>>

\* s.lock.Lock()
PollerLock ==
    /\ ~Crashed
    /\ pollerPc = "lock"
    /\ lock = "free"
    /\ lock' = "poller"
    /\ pollerPc' = "go"
    /\ UNCHANGED <<facts, GpsVerifier, MemoryPageHash, dispatchPc, l, jobs, observed, loadVars, syncVars, commitVars, extVars>>

\* go s.processMemoryPages(s.facts[0])
PollerGo ==
    /\ ~Crashed
    /\ pollerPc = "go"
    /\ jobs' = Append(jobs, NewJob(facts[1], GpsVerifier, MemoryPageHash))
    /\ pollerPc' = "pop"
    /\ UNCHANGED <<facts, GpsVerifier, MemoryPageHash, lock, dispatchPc, l, observed, loadVars, syncVars, commitVars, extVars>>

\* s.facts = s.facts[1:]; s.lock.Unlock(); return
PollerPop ==
    /\ ~Crashed
    /\ pollerPc = "pop"
    /\ GoReturns(jobs)
    /\ facts' = PopFront(facts)
    /\ lock' = "free"
    /\ pollerPc' = PollerAfterStart
    /\ UNCHANGED <<GpsVerifier, MemoryPageHash, dispatchPc, l, jobs, observed, loadVars, syncVars, commitVars, extVars>>

(***************************************************************************)
(* processMemoryPages(fact), one goroutine per started fact                *)
(***************************************************************************)
\* memoryPages = (s.GpsVerifier.Get(fact)).([][32]byte): the assertion panics on nil
JobGetPages(j) ==
    /\ ~Crashed
    /\ jobs[j].state = "start"
    /\ LET got == DictGet(GpsVerifier, jobs[j].fact) IN
        jobs' = [jobs EXCEPT ![j] =
                    IF got = Nil THEN [@ EXCEPT !.state = "panicked"]
                    ELSE [@ EXCEPT !.memoryPages = got,
                                   !.state = IF Len(got) = 0 THEN "resolved" ELSE "next"]]
    /\ UNCHANGED <<facts, GpsVerifier, MemoryPageHash, lock, dispatchPc, l, pollerPc, observed, loadVars, syncVars, commitVars, extVars>>

\* transactionHash := s.MemoryPageHash.Get(hash.Hex()), then the call
\* TransactionByHash(ctx, transactionHash.(common.Hash)): the assertion panics on nil
JobCall(j) ==
    /\ ~Crashed
    /\ jobs[j].state = "next"
    /\ LET transactionHash ==
              DictGet(MemoryPageHash, jobs[j].memoryPages[jobs[j].fetched + 1]) IN
        jobs' = [jobs EXCEPT ![j].state =
                    IF transactionHash = Nil THEN "panicked" ELSE "fetching"]
    /\ UNCHANGED <<facts, GpsVerifier, MemoryPageHash, lock, dispatchPc, l, pollerPc, observed, loadVars, syncVars, commitVars, extVars>>

\* TransactionByHash returns: an error ends the goroutine, a transaction is appended
\* to pages and the loop goes on to the next page
JobReturn(j) ==
    /\ ~Crashed
    /\ jobs[j].state = "fetching"
    /\ \E ok \in BOOLEAN :
        jobs' = [jobs EXCEPT ![j] =
                    IF ~ok THEN [@ EXCEPT !.state = "failed"]
                    ELSE [@ EXCEPT !.fetched = @ + 1,
                                   !.state = IF jobs[j].fetched + 1 = Len(jobs[j].memoryPages)
                                             THEN "resolved" ELSE "next"]]
    /\ UNCHANGED <<facts, GpsVerifier, MemoryPageHash, lock, dispatchPc, l, pollerPc, observed, loadVars, syncVars, commitVars, extVars>>

Next ==
    \/ DispatchRecv
    \/ DispatchTables
    \/ DispatchLock
    \/ DispatchAppend
    \/ PollerTick
    \/ PollerLock
    \/ PollerGo
    \/ PollerPop
    \/ \E j \in DOMAIN jobs : JobGetPages(j)
    \/ \E j \in DOMAIN jobs : JobCall(j)
    \/ \E j \in DOMAIN jobs : JobReturn(j)

Spec == Init /\ [][Next]_vars

(***************************************************************************)
(* loadEvents: backfill and live tail                                      *)
(***************************************************************************)
ChainIds == {[err |-> TRUE, id |-> 0], [err |-> FALSE, id |-> 1], [err |-> FALSE, id |-> 5]}

\* s.initialBlockForStarknetContract()
initialBlockForStarknetContract(cid) ==
    IF cid.err THEN 0
    ELSE IF cid.id = 1 THEN blockOfStarknetDeploymentContractMainnet
    ELSE blockOfStarknetDeploymentContractGoerli

\* getGpsVerifierContractAddress(ethereumClient)
getGpsVerifierContractAddress(cid) ==
    IF cid.err THEN "0xa739B175325cCA7b71fcB51C3032935Ef7Ac338F"
    ELSE IF cid.id = 1 THEN "0xa739B175325cCA7b71fcB51C3032935Ef7Ac338F"
    ELSE "0x5EF3C980Bf970FcE5BbC217835743ea9f0388f4F"

\* getMemoryPagesContractAddress(ethereumClient)
getMemoryPagesContractAddress(cid) ==
    IF cid.err THEN "0x96375087b2F6eFc59e5e0dd5111B4d090EBFDD8B"
    ELSE IF cid.id = 1 THEN "0x96375087b2F6eFc59e5e0dd5111B4d090EBFDD8B"
    ELSE "0x743789ff2fF82Bfb907009C9911a7dA636D34FA7"

\* FetchStarknetState: the key of contracts under which the Gps Statement
\* Verifier contract is watched
gpsStatementVerifierAddress == "0xa739B175325cCA7b71fcB51C3032935Ef7Ac338F"

\* config.Runtime.Starknet.MemoryPageFactRegistryContract: what a configuration
\* file may name
ConfigAddresses ==
    {"0x96375087b2F6eFc59e5e0dd5111B4d090EBFDD8B", "0x743789ff2fF82Bfb907009C9911a7dA636D34FA7"}

\* FetchStarknetState: the key of contracts under which the Memory Page Fact
\* Registry contract is watched
memoryPageFactRegistryAddress(config) == config

\* the blocks the runs look at: the first two of every window, the first being the
\* last of the window before
Blocks(floor) == {floor + n * MaxChunk + d : n \in 0..MaxWindows, d \in {0, 1}}

\* the logs of S that may carry another event than the three of the backfill
\* query: none of them, or one. S is the logs whose data decodes as the watched
\* event of their contract: an off-topic log that does not decode is skipped by
\* the live tail as any undecodable log is.
OffTopics(S) == {{}} \cup {{b} : b \in S}

\* the blocks of S in ascending order
RECURSIVE Ascending(_)
Ascending(S) ==
    IF S = {} THEN << >>
    ELSE LET m == CHOOSE x \in S : \A y \in S : x <= y
         IN <<m>> \o Ascending(S \ {m})

\* the logs of the watched contracts in the blocks fromBlock..toBlock (both ends
\* included) that are on the chain, in block order: what a query with Addresses
\* and no Topics selects
AddressLogs(fromBlock, toBlock) ==
    Ascending({b \in logBlocks : fromBlock <= b /\ b <= toBlock /\ b <= chainHead})

\* FilterLogs(query) of the backfill: of those logs the ones whose first topic is
\* one of the three hashes of query.Topics
FilterLogs(fromBlock, toBlock) ==
    SelectSeq(AddressLogs(fromBlock, toBlock), LAMBDA b : b \notin offTopic)

\* eventStruct{...} for every log of a sequence of logs, with the phase of
\* loadEvents that holds it
Sent(logs, phase) == [n \in DOMAIN logs |-> [block |-> logs[n], phase |-> phase]]

\* a loop that ends at the first log it cannot decode
RECURSIVE DecodedUntilError(_)
DecodedUntilError(logs) ==
    IF logs = << >> \/ Head(logs) \in undecodable THEN << >>
    ELSE <<Head(logs)>> \o DecodedUntilError(Tail(logs))

\* the logs of a sequence that UnpackIntoMap decodes: on an error the loop logs it
\* and goes on with the next log
Decoded(logs) == SelectSeq(logs, LAMBDA b : b \notin undecodable)

LoadInit ==
    /\ facts = << >>
    /\ GpsVerifier = EmptyDictionary
    /\ MemoryPageHash = EmptyDictionary
    /\ lock = "free"
    /\ dispatchPc = "recv"
    /\ l = NoEvent
    /\ pollerPc = "tick"
    /\ jobs = << >>
    /\ observed = << >>
    /\ chainId \in ChainIds
    /\ chainHead \in Blocks(initialBlockForStarknetContract(chainId))
    /\ logBlocks \in {S \in SUBSET Blocks(initialBlockForStarknetContract(chainId)) :
                        Cardinality(S) <= MaxLogs}
    /\ loadPc = "start"
    /\ latestBlockNumber = 0
    /\ i = 0
    /\ hLog = << >>
    /\ emitted = << >>
    /\ filterFailed = FALSE
    /\ undecodable \in SUBSET logBlocks
    /\ sub = "none"
    /\ fetched = << >>
    /\ queried = << >>
    /\ closeCalled = FALSE
    /\ clientClosed = FALSE
    /\ offTopic \in OffTopics(logBlocks \ undecodable)
    /\ starknetLogs = << >>
    /\ vLog = << >>
    /\ SyncIdle
    /\ CommitIdle
    /\ ExtIdle

\* whether a call on s.ethereumClient may succeed: never on a closed client
Answers == IF clientClosed THEN {FALSE} ELSE BOOLEAN

\* what s.ethereumClient.ChainID answers: the chain's answer while the client is
\* open, an error once it is closed
ChainID == IF clientClosed THEN [err |-> TRUE, id |-> 0] ELSE chainId

\* a loop that starts the next window one block after the end of the last
NextWindowPastEnd(from) == from + MaxChunk + 1

\* i += increment
NextWindow(from) == from + MaxChunk

\* latestBlockNumber, err := BlockNumber(); an error is returned
LoadBlockNumber ==
    /\ loadPc = "start"
    /\ \E ok \in Answers :
        IF ok
        THEN /\ latestBlockNumber' = chainHead
             /\ loadPc' = "chainId"
        ELSE /\ loadPc' = "failed"
             /\ UNCHANGED latestBlockNumber
    /\ UNCHANGED <<resVars, syncVars, commitVars, checked, hashVars,
                   stateVars, factVars, chainId, chainHead, logBlocks, i,
                   hLog, emitted, filterFailed, undecodable, sub, fetched,
                   queried, closeCalled, clientClosed, offTopic,
                   starknetLogs, vLog>>

\* initialBlock := s.initialBlockForStarknetContract(), which asks the client for
\* the chain ID; i := uint64(initialBlock)
LoadInitialBlock ==
    /\ loadPc = "chainId"
    /\ i' = initialBlockForStarknetContract(ChainID)
    /\ loadPc' = "backfill"
    /\ UNCHANGED <<resVars, syncVars, commitVars, checked, hashVars,
                   stateVars, factVars, chainId, chainHead, logBlocks,
                   latestBlockNumber, hLog, emitted, filterFailed,
                   undecodable, sub, fetched, queried, closeCalled,
                   clientClosed, offTopic, starknetLogs, vLog>>

\* one turn of `for i < latestBlockNumber` up to its first send: the query of
\* i..i+increment, then `break` on an error; else the logs that do not decode are
\* passed over, and with nothing to send i += increment
BackfillWindow ==
    /\ loadPc = "backfill"
    /\ starknetLogs = << >>
    /\ i < latestBlockNumber
    /\ \E ok \in Answers :
        /\ queried' = Append(queried, [FromBlock |-> i, ToBlock |-> i + MaxChunk, ok |-> ok])
        /\ IF ok
           THEN /\ fetched' = fetched \o Sent(FilterLogs(i, i + MaxChunk), "backfill")
                /\ starknetLogs' = Decoded(FilterLogs(i, i + MaxChunk))
                /\ i' = IF Decoded(FilterLogs(i, i + MaxChunk)) = << >>
                        THEN NextWindow(i) ELSE i
                /\ UNCHANGED <<loadPc, filterFailed>>
           ELSE /\ loadPc' = "subscribe"
                /\ filterFailed' = TRUE
                /\ UNCHANGED <<i, fetched, starknetLogs>>
    /\ UNCHANGED <<resVars, syncVars, commitVars, checked, hashVars,
                   stateVars, factVars, chainId, chainHead, logBlocks,
                   latestBlockNumber, hLog, emitted, undecodable, sub,
                   closeCalled, clientClosed, offTopic, vLog>>

\* eventChan <- eventStruct{...} for the next log of the window: the dispatch loop
\* takes it; after the last one i += increment
BackfillSend ==
    /\ loadPc = "backfill"
    /\ starknetLogs # << >>
    /\ emitted' = emitted \o Sent(<<Head(starknetLogs)>>, "backfill")
    /\ starknetLogs' = Tail(starknetLogs)
    /\ i' = IF Tail(starknetLogs) = << >> THEN NextWindow(i) ELSE i
    /\ UNCHANGED <<resVars, syncVars, commitVars, checked, hashVars,
                   stateVars, factVars, chainId, chainHead, logBlocks,
                   loadPc, latestBlockNumber, hLog, filterFailed,
                   undecodable, sub, fetched, queried, closeCalled,
                   clientClosed, offTopic, vLog>>

\* the loop condition fails: on to the subscription
BackfillDone ==
    /\ loadPc = "backfill"
    /\ starknetLogs = << >>
    /\ ~(i < latestBlockNumber)
    /\ loadPc' = "subscribe"
    /\ UNCHANGED <<resVars, syncVars, commitVars, checked, hashVars,
                   stateVars, factVars, chainId, chainHead, logBlocks,
                   latestBlockNumber, i, hLog, emitted, filterFailed,
                   undecodable, sub, fetched, queried, closeCalled,
                   clientClosed, offTopic, starknetLogs, vLog>>

\* sub, err := SubscribeFilterLogs(query{FromBlock: latestBlockNumber, Addresses},
\* hLog): no Topics. Whether the node also replays the logs already mined from
\* FromBlock on is the node's choice: both answers are admitted.
Subscribe ==
    /\ loadPc = "subscribe"
    /\ \E ok \in Answers, replay \in BOOLEAN :
        /\ loadPc' = IF ok THEN "live" ELSE "failed"
        /\ sub' = IF ok THEN "open" ELSE sub
        /\ hLog' = IF ok /\ replay
                   THEN AddressLogs(latestBlockNumber, chainHead)
                   ELSE hLog
    /\ UNCHANGED <<resVars, syncVars, commitVars, checked, hashVars,
                   stateVars, factVars, chainId, chainHead, logBlocks,
                   latestBlockNumber, i, emitted, filterFailed, undecodable,
                   fetched, queried, closeCalled, clientClosed, offTopic,
                   starknetLogs, vLog>>

\* the subscription delivers the logs of blocks mined while it is open, from
\* FromBlock on, in block order
Delivered(oldHead, newHead) ==
    Ascending({b \in logBlocks : oldHead < b /\ b <= newHead /\ latestBlockNumber <= b})

\* the L1 chain grows
ChainGrow ==
    /\ loadPc \in {"start", "chainId", "backfill", "subscribe", "live"}
    /\ \E h \in Blocks(initialBlockForStarknetContract(chainId)) :
        /\ h > chainHead
        /\ chainHead' = h
        /\ hLog' = IF loadPc = "live" /\ sub = "open"
                   THEN hLog \o Delivered(chainHead, h)
                   ELSE hLog
    /\ UNCHANGED <<resVars, syncVars, commitVars, checked, hashVars,
                   stateVars, factVars, chainId, logBlocks, loadPc,
                   latestBlockNumber, i, emitted, filterFailed, undecodable,
                   sub, fetched, queried, closeCalled, clientClosed,
                   offTopic, starknetLogs, vLog>>

\* case vLog := <-hLog: the log is decoded; on a decode error it is logged and the
\* loop goes round, else the log waits to be sent
LiveRecv ==
    /\ loadPc = "live"
    /\ vLog = << >>
    /\ hLog # << >>
    /\ fetched' = fetched \o Sent(<<Head(hLog)>>, "live")
    /\ vLog' = Decoded(<<Head(hLog)>>)
    /\ hLog' = Tail(hLog)
    /\ UNCHANGED <<resVars, syncVars, commitVars, checked, hashVars,
                   stateVars, factVars, chainId, chainHead, logBlocks,
                   loadPc, latestBlockNumber, i, emitted, filterFailed,
                   undecodable, sub, queried, closeCalled, clientClosed,
                   offTopic, starknetLogs>>

\* eventChan <- eventStruct{...} of the live tail: the dispatch loop takes the
\* event and the loop goes round
LiveSend ==
    /\ loadPc = "live"
    /\ vLog # << >>
    /\ emitted' = emitted \o Sent(vLog, "live")
    /\ vLog' = << >>
    /\ UNCHANGED <<resVars, syncVars, commitVars, checked, hashVars,
                   stateVars, factVars, chainId, chainHead, logBlocks,
                   loadPc, latestBlockNumber, i, hLog, filterFailed,
                   undecodable, sub, fetched, queried, closeCalled,
                   clientClosed, offTopic, starknetLogs>>

\* the subscription fails (the connection to the node drops): it stops
\* forwarding, what it had not yet handed over is lost, and the error waits on
\* sub.Err()
SubError ==
    /\ loadPc = "live"
    /\ sub = "open"
    /\ sub' = "failed"
    /\ hLog' = << >>
    /\ UNCHANGED <<resVars, syncVars, commitVars, checked, hashVars,
                   stateVars, factVars, chainId, chainHead, logBlocks,
                   loadPc, latestBlockNumber, i, emitted, filterFailed,
                   undecodable, fetched, queried, closeCalled, clientClosed,
                   offTopic, starknetLogs, vLog>>

\* case err := <-sub.Err(): the error is logged and the loop goes round, with
\* the same sub and the same hLog
LiveErr ==
    /\ loadPc = "live"
    /\ vLog = << >>
    /\ sub = "failed"
    /\ sub' = "dead"
    /\ UNCHANGED <<resVars, syncVars, commitVars, checked, hashVars,
                   stateVars, factVars, chainId, chainHead, logBlocks,
                   loadPc, latestBlockNumber, i, hLog, emitted, filterFailed,
                   undecodable, fetched, queried, closeCalled, clientClosed,
                   offTopic, starknetLogs, vLog>>

LoadNext ==
    \/ LoadBlockNumber
    \/ LoadInitialBlock
    \/ BackfillWindow
    \/ BackfillSend
    \/ BackfillDone
    \/ Subscribe
    \/ ChainGrow
    \/ LiveRecv
    \/ LiveSend
    \/ SubError
    \/ LiveErr

LoadSpec == LoadInit /\ [][LoadNext]_vars

(***************************************************************************)
(* Synchronizer.Close, called while loadEvents runs                         *)
(***************************************************************************)
\* loadEvents on mainnet with decodable logs of the watched events, Close not yet
\* called
CloseInit ==
    /\ LoadInit
    /\ chainId = [err |-> FALSE, id |-> 1]
    /\ undecodable = {}
    /\ offTopic = {}

\* Close(ctx): select { case <-ctx.Done(): s.ethereumClient.Close(); default: }.
\* With ctx done the client is closed: its subscription ends, and with it what
\* the subscription had not yet handed over. With ctx not done nothing happens.
\* loadEvents is not told in either case.
Close ==
    /\ ~closeCalled
    /\ loadPc \in {"start", "chainId", "backfill", "subscribe", "live"}
    /\ closeCalled' = TRUE
    /\ \E done \in BOOLEAN :
        /\ clientClosed' = done
        /\ sub' = IF done /\ sub = "open" THEN "failed" ELSE sub
        /\ hLog' = IF done THEN << >> ELSE hLog
    /\ UNCHANGED <<resVars, syncVars, commitVars, checked, hashVars,
                   stateVars, factVars, chainId, chainHead, logBlocks,
                   loadPc, latestBlockNumber, i, emitted, filterFailed,
                   undecodable, fetched, queried, offTopic, starknetLogs,
                   vLog>>

CloseNext ==
    \/ LoadBlockNumber
    \/ LoadInitialBlock
    \/ BackfillWindow
    \/ BackfillSend
    \/ BackfillDone
    \/ Subscribe
    \/ ChainGrow
    \/ LiveRecv
    \/ LiveSend
    \/ SubError
    \/ LiveErr
    \/ Close

CloseSpec == CloseInit /\ [][CloseNext]_vars

(***************************************************************************)
(* UpdateState and the ways FetchStarknetState returns to it                *)
(* (specification StateSpec). The dispatch loop is taken to receive every   *)
(* event loadEvents sends; what it does with them is specification Spec.    *)
(***************************************************************************)
\* the errors of the calls FetchStarknetState makes before its go statements
SetupErrors == {"GetContractAddresses", "loadContract"}

\* fmt.Errorf("couldn't read event from logs")
EventClosedError == "couldn't read event from logs"

\* UpdateState has called FetchStarknetState on mainnet with decodable logs
StateInit ==
    /\ facts = << >>
    /\ GpsVerifier = EmptyDictionary
    /\ MemoryPageHash = EmptyDictionary
    /\ lock = "free"
    /\ dispatchPc = "recv"
    /\ l = NoEvent
    /\ pollerPc = "tick"
    /\ jobs = << >>
    /\ observed = << >>
    /\ chainId = [err |-> FALSE, id |-> 1]
    /\ chainHead \in Blocks(initialBlockForStarknetContract(chainId))
    /\ logBlocks \in {S \in SUBSET Blocks(initialBlockForStarknetContract(chainId)) :
                        Cardinality(S) <= MaxLogs}
    /\ loadPc = "idle"
    /\ latestBlockNumber = 0
    /\ i = 0
    /\ hLog = << >>
    /\ emitted = << >>
    /\ filterFailed = FALSE
    /\ undecodable = {}
    /\ sub = "none"
    /\ fetched = << >>
    /\ queried = << >>
    /\ closeCalled = FALSE
    /\ clientClosed = FALSE
    /\ offTopic = {}
    /\ starknetLogs = << >>
    /\ vLog = << >>
    /\ SyncIdle
    /\ CommitIdle
    /\ PollIdle
    /\ FactIdle
    /\ HashIdle
    /\ fetchPc = "setup"
    /\ fetchErr = Nil
    /\ eventClosed = FALSE
    /\ updatePc = "fetchState"
    /\ updateErr = Nil

\* FetchStarknetState up to its go statements: GetContractAddresses and the three
\* loadContract calls, each returning its error when it fails; then
\* `go func() { err = s.loadEvents(contracts, event) ... }()`
FetchSetup ==
    /\ fetchPc = "setup"
    /\ \E e \in {Nil} \cup SetupErrors :
        IF e = Nil
        THEN /\ fetchPc' = "running"
             /\ loadPc' = "start"
             /\ UNCHANGED fetchErr
        ELSE /\ fetchPc' = "returned"
             /\ fetchErr' = e
             /\ UNCHANGED loadPc
    /\ UNCHANGED <<resVars, syncVars, commitVars, checked, hashVars,
                   eventClosed, updatePc, updateErr, factVars, chainId,
                   chainHead, logBlocks, latestBlockNumber, i, hLog, emitted,
                   filterFailed, undecodable, sub, fetched, queried,
                   closeCalled, clientClosed, offTopic, starknetLogs, vLog>>

\* the ingestion goroutine after loadEvents returned an error: close(event)
IngestClose ==
    /\ loadPc = "failed"
    /\ ~eventClosed
    /\ eventClosed' = TRUE
    /\ UNCHANGED <<resVars, loadVars, syncVars, commitVars, checked, factVars,
                   hashVars, fetchPc, fetchErr, updatePc, updateErr>>

\* variant: the dispatch loop ends without an error when the channel is closed
DispatchClosedNil ==
    /\ fetchPc = "running"
    /\ eventClosed
    /\ fetchPc' = "returned"
    /\ fetchErr' = Nil
    /\ UNCHANGED <<resVars, loadVars, syncVars, commitVars, checked, factVars,
                   hashVars, eventClosed, updatePc, updateErr>>

\* case l, ok := <-event with !ok: return fmt.Errorf(...)
DispatchClosed ==
    /\ fetchPc = "running"
    /\ eventClosed
    /\ fetchPc' = "returned"
    /\ fetchErr' = EventClosedError
    /\ UNCHANGED <<resVars, loadVars, syncVars, commitVars, checked, factVars,
                   hashVars, eventClosed, updatePc, updateErr>>

\* UpdateState after s.FetchStarknetState() returned: `if err != nil { return err }`,
\* else GetContractAddresses (its error returned) and on to the FetchStarknetFact
\* goroutine and the loop over the channel fact
UpdateAfterFetch ==
    /\ updatePc = "fetchState"
    /\ fetchPc = "returned"
    /\ IF fetchErr # Nil
       THEN /\ updatePc' = "returned"
            /\ updateErr' = fetchErr
       ELSE \E ok \in BOOLEAN :
            /\ updatePc' = IF ok THEN "fetchFact" ELSE "returned"
            /\ updateErr' = IF ok THEN updateErr ELSE "GetContractAddresses"
    /\ UNCHANGED <<resVars, loadVars, syncVars, commitVars, checked, factVars,
                   hashVars, fetchPc, fetchErr, eventClosed>>

StateNext ==
    \/ FetchSetup
    \/ LoadBlockNumber
    \/ LoadInitialBlock
    \/ BackfillWindow
    \/ BackfillSend
    \/ BackfillDone
    \/ Subscribe
    \/ ChainGrow
    \/ LiveRecv
    \/ LiveSend
    \/ SubError
    \/ LiveErr
    \/ IngestClose
    \/ DispatchClosed
    \/ UpdateAfterFetch

StateSpec == StateInit /\ [][StateNext]_vars

(***************************************************************************)
(* FetchStarknetFact: the windows of MaxChunk blocks from the deployment    *)
(* floor to the head read at entry (specification FactSpec). The receiver   *)
(* of the channel fact, the loop of UpdateState, takes every value sent.    *)
(* vLog.MarshalJSON() encodes fixed-size fields and has no failing input,   *)
(* so its error return is not a step.                                       *)
(***************************************************************************)
\* at most this many FilterLogs calls of one run fail
MaxRetries == 2

\* the errors FetchStarknetFact returns before its loop
FactErrors == {"BlockNumber", "loadContract"}

\* factChan{block: int64(vLog.BlockNumber), fact: event["stateTransitionFact"]}
\* for the log of a block
factChan(log) == [block |-> log, fact |-> <<"stateTransitionFact", log>>]

\* fact <- factChan{...} for every log of a sequence of logs
FactsSent(logs) == [n \in DOMAIN logs |-> factChan(logs[n])]

\* the FilterLogs calls of the run that failed
Failures == {n \in DOMAIN queried : ~queried[n].ok}

\* FetchStarknetFact is called. Its query names no topics: which event a log
\* carries makes no difference to it.
FactInit ==
    /\ facts = << >>
    /\ GpsVerifier = EmptyDictionary
    /\ MemoryPageHash = EmptyDictionary
    /\ lock = "free"
    /\ dispatchPc = "recv"
    /\ l = NoEvent
    /\ pollerPc = "tick"
    /\ jobs = << >>
    /\ observed = << >>
    /\ chainId \in ChainIds
    /\ chainHead \in Blocks(initialBlockForStarknetContract(chainId))
    /\ logBlocks \in {S \in SUBSET Blocks(initialBlockForStarknetContract(chainId)) :
                        Cardinality(S) <= MaxLogs}
    /\ loadPc = "idle"
    /\ latestBlockNumber = 0
    /\ i = 0
    /\ hLog = << >>
    /\ emitted = << >>
    /\ filterFailed = FALSE
    /\ undecodable \in SUBSET logBlocks
    /\ sub = "none"
    /\ fetched = << >>
    /\ queried = << >>
    /\ closeCalled = FALSE
    /\ clientClosed = FALSE
    /\ offTopic = {}
    /\ starknetLogs = << >>
    /\ vLog = << >>
    /\ SyncIdle
    /\ CommitIdle
    /\ PollIdle
    /\ StateIdle
    /\ HashIdle
    /\ factPc = "start"
    /\ factErr = Nil
    /\ factSent = << >>

\* latestBlockNumber, err := BlockNumber(); an error is returned
FactStart ==
    /\ factPc = "start"
    /\ \E ok \in Answers :
        IF ok
        THEN /\ latestBlockNumber' = chainHead
             /\ factPc' = "chainId"
             /\ UNCHANGED factErr
        ELSE /\ factPc' = "returned"
             /\ factErr' = "BlockNumber"
             /\ UNCHANGED latestBlockNumber
    /\ UNCHANGED <<resVars, syncVars, commitVars, checked, hashVars,
                   stateVars, factSent, chainId, chainHead, logBlocks,
                   loadPc, i, hLog, emitted, filterFailed, undecodable, sub,
                   fetched, queried, closeCalled, clientClosed, offTopic,
                   starknetLogs, vLog>>

\* starknetAbi, err := loadContract(...), its error returned; then initialBlock :=
\* s.initialBlockForStarknetContract(), which asks the client for the chain ID,
\* and i := uint64(initialBlock)
FactInitialBlock ==
    /\ factPc = "chainId"
    /\ \E abi \in BOOLEAN :
        IF abi
        THEN /\ i' = initialBlockForStarknetContract(ChainID)
             /\ factPc' = "loop"
             /\ UNCHANGED factErr
        ELSE /\ factPc' = "returned"
             /\ factErr' = "loadContract"
             /\ UNCHANGED i
    /\ UNCHANGED <<resVars, syncVars, commitVars, checked, hashVars,
                   stateVars, factSent, chainId, chainHead, logBlocks,
                   loadPc, latestBlockNumber, hLog, emitted, filterFailed,
                   undecodable, sub, fetched, queried, closeCalled,
                   clientClosed, offTopic, starknetLogs, vLog>>

\* variant: a failed query gives the window up and goes on with the next
SkipWindow(from) == from + MaxChunk

\* `continue` after a failed FilterLogs: i is left as it is
RetryWindow(from) == from

\* one turn of `for i < latestBlockNumber` up to its first send: the query of
\* i..i+increment for the logs of starknetAddress (no Topics), then `continue` on
\* an error; else the logs that do not decode are passed over, and with nothing
\* to send i += increment
FactWindow ==
    /\ factPc = "loop"
    /\ starknetLogs = << >>
    /\ i < latestBlockNumber
    /\ \E ok \in Answers :
        /\ ok \/ Cardinality(Failures) < MaxRetries
        /\ queried' = Append(queried,
                [FromBlock |-> i, ToBlock |-> i + MaxChunk, ok |-> ok,
                 logs |-> IF ok THEN AddressLogs(i, i + MaxChunk) ELSE << >>])
        /\ IF ok
           THEN /\ starknetLogs' = Decoded(AddressLogs(i, i + MaxChunk))
                /\ i' = IF Decoded(AddressLogs(i, i + MaxChunk)) = << >>
                        THEN NextWindow(i) ELSE i
           ELSE /\ i' = RetryWindow(i)
                /\ UNCHANGED starknetLogs
    /\ UNCHANGED <<resVars, syncVars, commitVars, checked, hashVars,
                   stateVars, factVars, chainId, chainHead, logBlocks,
                   loadPc, latestBlockNumber, hLog, emitted, filterFailed,
                   undecodable, sub, fetched, closeCalled, clientClosed,
                   offTopic, vLog>>

\* fact <- factChan{...} for the next log of the window: the loop of UpdateState
\* takes it; after the last one i += increment
FactSend ==
    /\ factPc = "loop"
    /\ starknetLogs # << >>
    /\ factSent' = factSent \o FactsSent(<<Head(starknetLogs)>>)
    /\ starknetLogs' = Tail(starknetLogs)
    /\ i' = IF Tail(starknetLogs) = << >> THEN NextWindow(i) ELSE i
    /\ UNCHANGED <<resVars, syncVars, commitVars, checked, hashVars,
                   stateVars, factPc, factErr, chainId, chainHead, logBlocks,
                   loadPc, latestBlockNumber, hLog, emitted, filterFailed,
                   undecodable, sub, fetched, queried, closeCalled,
                   clientClosed, offTopic, vLog>>

\* the loop condition fails: return nil
FactReturn ==
    /\ factPc = "loop"
    /\ starknetLogs = << >>
    /\ ~(i < latestBlockNumber)
    /\ factPc' = "returned"
    /\ factErr' = Nil
    /\ UNCHANGED <<resVars, syncVars, commitVars, checked, hashVars,
                   stateVars, factSent, loadVars>>

\* the L1 chain grows while FetchStarknetFact runs
FactChainGrow ==
    /\ factPc \in {"start", "chainId", "loop"}
    /\ \E h \in Blocks(initialBlockForStarknetContract(chainId)) :
        /\ h > chainHead
        /\ chainHead' = h
    /\ UNCHANGED <<resVars, syncVars, commitVars, checked, hashVars,
                   stateVars, factVars, chainId, logBlocks, loadPc,
                   latestBlockNumber, i, hLog, emitted, filterFailed,
                   undecodable, sub, fetched, queried, closeCalled,
                   clientClosed, offTopic, starknetLogs, vLog>>

FactNext ==
    \/ FactStart
    \/ FactInitialBlock
    \/ FactWindow
    \/ FactSend
    \/ FactReturn
    \/ FactChainGrow

FactSpec == FactInit /\ [][FactNext]_vars

(***************************************************************************)
(* fastSync: the loop over the feeder gateway's state updates, and the      *)
(* goroutine updateStateForOneBlock starts for each of them                 *)
(***************************************************************************)
\* FetchStarknetState and loadEvents not running
OthersIdle ==
    /\ facts = << >>
    /\ GpsVerifier = EmptyDictionary
    /\ MemoryPageHash = EmptyDictionary
    /\ lock = "free"
    /\ dispatchPc = "recv"
    /\ l = NoEvent
    /\ pollerPc = "tick"
    /\ jobs = << >>
    /\ observed = << >>
    /\ chainId = [err |-> TRUE, id |-> 0]
    /\ chainHead = 0
    /\ logBlocks = {}
    /\ loadPc = "idle"
    /\ latestBlockNumber = 0
    /\ i = 0
    /\ hLog = << >>
    /\ emitted = << >>
    /\ filterFailed = FALSE
    /\ undecodable = {}
    /\ sub = "none"
    /\ fetched = << >>
    /\ queried = << >>
    /\ closeCalled = FALSE
    /\ clientClosed = FALSE
    /\ offTopic = {}
    /\ starknetLogs = << >>
    /\ vLog = << >>

\* the heights a database may hold when fastSync starts
StartHeights == {0, 255}
\* the block hashes the feeder gateway answers with
Hashes == {"h1", "h2"}
\* update.StateDiff.DeployedContracts: for every contract what its processing
\* meets: "ok", a GetCode error, or an address UnmarshalJSON does not parse
DeployedContracts == {<< >>, <<"ok">>, <<"ok", "GetCode">>, <<"UnmarshalJSON", "ok">>}
\* what GetStateUpdate may answer
Responses ==
    {NoUpdate} \cup
    {[err |-> FALSE, BlockHash |-> h, DeployedContracts |-> c] :
        h \in Hashes, c \in DeployedContracts}
\* at most this many goroutines are started in one run
MaxJobs == 2

SyncInit ==
    /\ OthersIdle
    /\ db \in {NoValue} \cup {Value(s_updateLatestBlockQueried(h)) : h \in StartHeights}
    /\ syncPc = "start"
    /\ blockIterator = 0
    /\ lastBlockHash = ""
    /\ update = NoUpdate
    /\ newValueForIterator = 0
    /\ newBlockHash = ""
    /\ syncJobs = << >>
    /\ saves = << >>
    /\ lastSave = NoSave
    /\ lastLoad = NoLoad
    /\ CommitIdle
    /\ ExtIdle

\* latestBlockQueried, err := s.latestBlockQueried(); on an error fastSync
\* returns; blockIterator := int(latestBlockQueried); lastBlockHash := ""
SyncStart ==
    /\ syncPc = "start"
    /\ \E getErr \in BOOLEAN :
        LET r == s_latestBlockQueried(getErr, db)
        IN IF r.err
           THEN /\ syncPc' = "returned"
                /\ UNCHANGED <<blockIterator, lastBlockHash>>
           ELSE /\ syncPc' = "call"
                /\ blockIterator' = r.height
                /\ lastBlockHash' = ""
    /\ UNCHANGED <<resVars, loadVars, commitVars, extVars, db, update, newValueForIterator, newBlockHash,
                   syncJobs, saves, lastSave, lastLoad>>

\* updateStateForOneBlock, first half: update, err := GetStateUpdate("",
\* strconv.Itoa(blockIterator)), called by the first loop at once and by the
\* second loop at every tick
SyncGetStateUpdate ==
    /\ syncPc = "call"
    /\ Len(syncJobs) < MaxJobs
    /\ \E r \in Responses : update' = r
    /\ syncPc' = "fetched"
    /\ UNCHANGED <<resVars, loadVars, commitVars, extVars, db, blockIterator, lastBlockHash,
                   newValueForIterator, newBlockHash, syncJobs, saves, lastSave, lastLoad>>

\* an updateStateForOneBlock without the comparison of the block hashes
updateStateForOneBlockAlways(it, last, u) ==
    IF u.err
    THEN [newValueForIterator |-> it, newBlockHash |-> last, go |-> FALSE]
    ELSE [newValueForIterator |-> it + 1, newBlockHash |-> u.BlockHash, go |-> TRUE]

\* updateStateForOneBlock(blockIterator, lastBlockHash) from the answer u on:
\* what it returns and whether it starts the goroutine
updateStateForOneBlock(it, last, u) ==
    IF u.err
    THEN [newValueForIterator |-> it, newBlockHash |-> last, go |-> FALSE]
    ELSE IF last = u.BlockHash
    THEN [newValueForIterator |-> it, newBlockHash |-> last, go |-> FALSE]
    ELSE [newValueForIterator |-> it + 1, newBlockHash |-> u.BlockHash, go |-> TRUE]

\* the goroutine of updateStateForOneBlock as the go statement starts it
NewSyncJob(it, last, u) ==
    [block |-> it, BlockHash |-> u.BlockHash, lastBlockHash |-> last,
     DeployedContracts |-> u.DeployedContracts, processed |-> 0, state |-> "started"]

\* updateStateForOneBlock, second half, returning to fastSync
SyncReturn ==
    /\ syncPc = "fetched"
    /\ LET r == updateStateForOneBlock(blockIterator, lastBlockHash, update)
       IN /\ newValueForIterator' = r.newValueForIterator
          /\ newBlockHash' = r.newBlockHash
          /\ syncJobs' = IF r.go
                         THEN Append(syncJobs, NewSyncJob(blockIterator, lastBlockHash, update))
                         ELSE syncJobs
    /\ syncPc' = "compare"
    /\ UNCHANGED <<resVars, loadVars, commitVars, extVars, db, blockIterator, lastBlockHash, update, saves,
                   lastSave, lastLoad>>

\* if newBlockHash == lastBlockHash { break }; lastBlockHash, blockIterator =
\* newBlockHash, newValueForIterator. The break leaves the first loop for the
\* ticker loop, and in the ticker loop only the select.
SyncCompare ==
    /\ syncPc = "compare"
    /\ IF newBlockHash = lastBlockHash
       THEN UNCHANGED <<blockIterator, lastBlockHash>>
       ELSE /\ lastBlockHash' = newBlockHash
            /\ blockIterator' = newValueForIterator
    /\ syncPc' = "call"
    /\ UNCHANGED <<resVars, loadVars, commitVars, extVars, db, update, newValueForIterator, newBlockHash,
                   syncJobs, saves, lastSave, lastLoad>>

\* one turn of updateAbiAndCode's `for _, v := range DeployedContracts` in the
\* goroutine job, with its one call of GetCode: past the last contract, or at a
\* contract that meets an error, updateAbiAndCode returns, updateState returns nil
\* and the goroutine goes on to save; else the contract is handled
updateAbiAndCode(job) ==
    LET k == job.processed + 1
    IN IF k > Len(job.DeployedContracts)
       THEN [job EXCEPT !.state = "saving"]
       ELSE IF job.DeployedContracts[k] # "ok"
       THEN [job EXCEPT !.state = "saving"]
       ELSE [job EXCEPT !.processed = k,
                        !.state = IF k = Len(job.DeployedContracts)
                                  THEN "saving" ELSE "started"]

\* the goroutine: err = s.updateState(update), one deployed contract at a time
GoUpdateState ==
    \E j \in DOMAIN syncJobs :
        /\ syncJobs[j].state = "started"
        /\ syncJobs' = [syncJobs EXCEPT ![j] = updateAbiAndCode(syncJobs[j])]
        /\ UNCHANGED <<resVars, loadVars, commitVars, extVars, db, syncPc, blockIterator, lastBlockHash, update,
                       newValueForIterator, newBlockHash, saves, lastSave, lastLoad>>

\* the goroutine: err = s.updateLatestBlockQueried(int64(blockIterator))
GoUpdateLatestBlockQueried ==
    \E j \in DOMAIN syncJobs :
        /\ syncJobs[j].state = "saving"
        /\ \E ok \in BOOLEAN :
            IF ok
            THEN /\ db' = Value(s_updateLatestBlockQueried(syncJobs[j].block))
                 /\ saves' = Append(saves, syncJobs[j].block)
                 /\ syncJobs' = [syncJobs EXCEPT ![j].state = "saved"]
            ELSE /\ syncJobs' = [syncJobs EXCEPT ![j].state = "returned"]
                 /\ UNCHANGED <<db, saves>>
        /\ UNCHANGED <<resVars, loadVars, commitVars, extVars, syncPc, blockIterator, lastBlockHash, update,
                       newValueForIterator, newBlockHash, lastSave, lastLoad>>

SyncNext ==
    \/ SyncStart
    \/ SyncGetStateUpdate
    \/ SyncReturn
    \/ SyncCompare
    \/ GoUpdateState
    \/ GoUpdateLatestBlockQueried

SyncSpec == SyncInit /\ [][SyncNext]_vars

(***************************************************************************)
(* The checkpoint functions called directly, on any stored value            *)
(***************************************************************************)
\* the heights saved
Heights == {0, 1, 255, 256, 65536}
\* the values the database may hold under the key at the start: none, values
\* shorter and longer than 8 bytes, and saved heights
StoredValues ==
    {NoValue, Value(<< >>), Value(<<0, 0, 1>>), Value(PutUint64(7) \o <<9>>)}
    \cup {Value(PutUint64(h)) : h \in Heights}
Impls == {"Synchronizer", "package"}

StoreInit ==
    /\ OthersIdle
    /\ db \in StoredValues
    /\ syncPc = "idle"
    /\ blockIterator = 0
    /\ lastBlockHash = ""
    /\ update = NoUpdate
    /\ newValueForIterator = 0
    /\ newBlockHash = ""
    /\ syncJobs = << >>
    /\ saves = << >>
    /\ lastSave = NoSave
    /\ lastLoad = NoLoad
    /\ CommitIdle
    /\ ExtIdle

\* a call of updateLatestBlockQueried(block); Put may fail, and then the stored
\* value stays
Save ==
    \E impl \in Impls, block \in Heights, ok \in BOOLEAN :
        /\ db' = IF ~ok THEN db
                 ELSE IF impl = "Synchronizer"
                 THEN Value(s_updateLatestBlockQueried(block))
                 ELSE Value(updateLatestBlockQueried(block))
        /\ lastSave' = [impl |-> impl, block |-> block, err |-> ~ok]
        /\ lastLoad' = NoLoad
        /\ UNCHANGED <<resVars, loadVars, commitVars, extVars, syncPc, blockIterator, lastBlockHash, update,
                       newValueForIterator, newBlockHash, syncJobs, saves>>

\* a call of latestBlockQueried(); Get may fail
Load ==
    \E impl \in Impls, getErr \in BOOLEAN :
        /\ LET r == IF impl = "Synchronizer"
                    THEN s_latestBlockQueried(getErr, db)
                    ELSE latestBlockQueried(getErr, db)
           IN lastLoad' = [impl |-> impl, getErr |-> getErr, stored |-> db,
                           height |-> r.height, err |-> r.err]
        /\ UNCHANGED <<resVars, loadVars, commitVars, extVars, db, syncPc, blockIterator, lastBlockHash, update,
                       newValueForIterator, newBlockHash, syncJobs, saves, lastSave>>

StoreNext ==
    \/ Save
    \/ Load

StoreSpec == StoreInit /\ [][StoreNext]_vars

(***************************************************************************)
(* contractState: the value kept in a leaf of the state tree                *)
(***************************************************************************)
\* pedersen.Digest(a, b), uninterpreted: the hash of two field elements is the
\* pair of them; the n-th call of a run fails when failAt says so
Digest(n, a, b) ==
    IF failAt = n THEN [err |-> TRUE, val |-> NoVal]
    ELSE [err |-> FALSE, val |-> <<a, b>>]

\* a contractState of two hashes
contractStateTwoHashes(ch, sr) ==
    LET d1 == Digest(1, ch, sr)
    IN IF d1.err THEN [panic |-> TRUE, val |-> NoVal]
       ELSE LET d2 == Digest(2, d1.val, Zero)
            IN IF d2.err THEN [panic |-> TRUE, val |-> NoVal]
               ELSE [panic |-> FALSE, val |-> d2.val]

\* contractState(contractHash, storageRoot): three Digest calls, each followed
\* by log.Default...Panic when it returned an error
contractState(ch, sr) ==
    LET d1 == Digest(1, ch, sr)
    IN IF d1.err THEN [panic |-> TRUE, val |-> NoVal]
       ELSE LET d2 == Digest(2, d1.val, Zero)
            IN IF d2.err THEN [panic |-> TRUE, val |-> NoVal]
               ELSE LET d3 == Digest(3, d2.val, Zero)
                    IN IF d3.err THEN [panic |-> TRUE, val |-> NoVal]
                       ELSE [panic |-> FALSE, val |-> d3.val]

CommitInit ==
    /\ OthersIdle
    /\ SyncIdle
    /\ contractHash \in Elems
    /\ storageRoot \in Elems
    /\ failAt \in 0..3
    /\ commitPc = "call"
    /\ val = NoVal
    /\ ExtIdle

\* a call of contractState: it returns the value, or panics, and nothing in
\* the package recovers a panic
CallContractState ==
    /\ commitPc = "call"
    /\ LET r == contractState(contractHash, storageRoot)
       IN /\ commitPc' = IF r.panic THEN "panicked" ELSE "returned"
          /\ val' = r.val
    /\ UNCHANGED <<resVars, loadVars, syncVars, extVars, contractHash, storageRoot, failAt>>

CommitNext ==
    \/ CallContractState

CommitSpec == CommitInit /\ [][CommitNext]_vars

(***************************************************************************)
(* Contract hash keys: remove0x, storeContractHash and loadContractHash     *)
(* (specification HashSpec). A key is the sequence of its characters. The   *)
(* contract hash service is a table from keys to values.                    *)
(***************************************************************************)
\* the characters the keys are made of
Chars == {"0", "x", "a"}

\* the length of the longest key
MaxKeyLen == 3

Keys == UNION {[1..n -> Chars] : n \in 0..MaxKeyLen}

\* the values stored, other than the service's answer 0 for a key it does not hold
HashValues == {1, 2}

\* contractHashService.StoreContractHash(key, value)
StoreContractHash(t, key, value) ==
    [k \in DOMAIN t \cup {key} |-> IF k = key THEN value ELSE t[k]]

\* contractHashService.GetContractHash(key)
GetContractHash(t, key) == IF key \in DOMAIN t THEN t[key] ELSE 0

\* `for _, char := range s` of remove0x, with its locals found and answer
RECURSIVE remove0xLoop(_, _, _)
remove0xLoop(s, found, answer) ==
    IF s = << >> THEN answer
    ELSE LET f == found \/ (Head(s) # "0" /\ Head(s) # "x")
         IN remove0xLoop(Tail(s), f, IF f THEN Append(answer, Head(s)) ELSE answer)

\* variant: only one leading "0x" is taken off
remove0xPrefixOnly(s) ==
    IF Len(s) >= 2 /\ s[1] = "0" /\ s[2] = "x"
    THEN IF Len(s) = 2 THEN <<"0">> ELSE SubSeq(s, 3, Len(s))
    ELSE IF Len(s) = 0 THEN <<"0">> ELSE s

\* remove0x(s)
remove0x(s) ==
    LET answer == remove0xLoop(s, FALSE, << >>)
    IN IF Len(answer) = 0 THEN <<"0">> ELSE answer

\* storeContractHash(contractHash, value) on the table t
storeContractHash(t, key, value) == StoreContractHash(t, remove0x(key), value)

\* loadContractHash(contractHash) on the table t
loadContractHash(t, key) == GetContractHash(t, remove0x(key))

HashInit ==
    /\ OthersIdle
    /\ SyncIdle
    /\ CommitIdle
    /\ PollIdle
    /\ StateIdle
    /\ FactIdle
    /\ contractHashes = NoContractHashes
    /\ hashStored = NoHashCall
    /\ hashLoaded = NoHashCall

\* a call of storeContractHash, the one store of the run
StoreHash ==
    /\ ~hashStored.made
    /\ \E k \in Keys, v \in HashValues :
        /\ contractHashes' = storeContractHash(contractHashes, k, v)
        /\ hashStored' = [made |-> TRUE, key |-> k, value |-> v]
    /\ hashLoaded' = NoHashCall
    /\ UNCHANGED <<resVars, loadVars, syncVars, commitVars, checked, stateVars, factVars>>

\* a call of loadContractHash
LoadHash ==
    /\ \E k \in Keys :
        hashLoaded' = [made |-> TRUE, key |-> k,
                       value |-> loadContractHash(contractHashes, k)]
    /\ UNCHANGED <<resVars, loadVars, syncVars, commitVars, checked, stateVars, factVars,
                   contractHashes, hashStored>>

HashNext ==
    \/ StoreHash
    \/ LoadHash

HashSpec == HashInit /\ [][HashNext]_vars

(***************************************************************************)
(* Properties of the fact resolution state machine (specification Spec)    *)
(***************************************************************************)
\* how many facts have left the pending queue
Popped == Len(observed) - Len(facts)

InQueue(f) == \E k \in DOMAIN facts : facts[k] = f

\* C1: processMemoryPages(f) is started only in a state where GpsVerifier holds
\* f's page-hash set and MemoryPageHash holds a carrying transaction for every
\* page hash of that set.
C1_StartedOnlyWithAllDepsKnown == \A j \in DOMAIN jobs : jobs[j].depsKnown

\* C2 (as claimed): a fact that has left the pending queue has had every page of
\* its page-hash set fetched (its processMemoryPages has reached Resolved).
C2_RemovedOnlyAfterResolved == \A k \in 1..Popped : jobs[k].state = "resolved"

\* C2 (amended): a fact leaves the pending queue when its processing begins: every
\* fact that has left the queue is one for which processMemoryPages was started
\* with its page-hash set in GpsVerifier, and a started fact is still queued only
\* inside the poller's critical section that started it.
C2_RemovedWhenProcessingBegins ==
    /\ Popped <= Len(jobs)
    /\ \A k \in 1..Popped : jobs[k].fact = observed[k] /\ jobs[k].pagesKnown
    /\ Len(jobs) > Popped =>
          /\ Len(jobs) = Popped + 1
          /\ pollerPc = "pop"
          /\ lock = "poller"

\* a fact has left the queue while its pages are still being fetched
C2_Witness ==
    /\ Popped = 1
    /\ jobs[1].state = "fetching"
    /\ jobs[1].fetched < Len(jobs[1].memoryPages)

\* C3: processMemoryPages is invoked at most once for each distinct fact hash,
\* also when the same stateTransitionFact is observed more than once.
C3_AtMostOncePerFact ==
    \A j, k \in DOMAIN jobs : j # k => jobs[j].fact # jobs[k].fact

\* the same fact was observed twice, was started once, and its second copy waits
\* at the head of the queue with its page-hash set known
C3_Witness ==
    /\ Len(observed) = 2
    /\ observed[1] = observed[2]
    /\ Len(jobs) = 1
    /\ facts = <<observed[2]>>
    /\ HeadReady(facts, GpsVerifier)
    /\ pollerPc = "returned"

\* C4: the pending queue is FIFO: facts are handed to processMemoryPages in the
\* order they were appended, only the head is ever dequeued, and a head whose
\* page-hash set is not in GpsVerifier stays at the head and keeps every fact
\* behind it from being started.
C4_Fifo ==
    /\ Len(jobs) <= Len(observed)
    /\ \A k \in DOMAIN jobs : jobs[k].fact = observed[k]
    /\ observed = SubSeq(observed, 1, Popped) \o facts
    /\ (facts # << >> /\ ~DictExist(GpsVerifier, facts[1])) =>
          /\ pollerPc \in {"tick", "returned"}
          /\ Len(jobs) = Popped

\* the head's page-hash set is unknown, the set of the fact behind it is known, and
\* nothing has been started
C4_Witness ==
    /\ Len(facts) = 2
    /\ facts[1] # facts[2]
    /\ ~DictExist(GpsVerifier, facts[1])
    /\ DictExist(GpsVerifier, facts[2])
    /\ pollerPc = "tick"
    /\ jobs = << >>

\* C5: the poller keeps polling after it has started a fact: while a fact whose
\* page-hash set is recorded waits at the head of the queue, the poller is alive
\* to hand it to processMemoryPages.
C5_PollerKeepsDraining == HeadReady(facts, GpsVerifier) => pollerPc # "returned"

\* C6: every append, pop-front and table insert is done while holding s.lock, and
\* no task is about to read or write the queue or a table while another task is
\* about to write it.
C6_GuardedBySingleLock ==
    /\ dispatchPc = "tables" => lock = "dispatch"
    /\ dispatchPc = "append" => lock = "dispatch"
    /\ pollerPc = "pop" => lock = "poller"
    /\ ~(dispatchPc = "append" /\ pollerPc = "tick")
    /\ ~(dispatchPc = "tables" /\ pollerPc = "tick")
    /\ \A j \in DOMAIN jobs :
          jobs[j].state \in {"start", "next"} => dispatchPc # "tables"

\* the step by which the task holding s.lock gets on towards releasing it
HolderStep ==
    \/ lock = "dispatch" /\ DispatchAppend
    \/ lock = "poller" /\ (PollerGo \/ PollerPop)

\* C7: resolution never blocks ingestion: processMemoryPages never holds s.lock,
\* and while a TransactionByHash call is in flight s.lock is either free or held
\* by a task whose way to the release does not wait for the call.
C7_ResolutionNeverBlocksIngestion ==
    /\ lock \in {"free", "dispatch", "poller"}
    /\ \A j \in DOMAIN jobs :
          (jobs[j].state = "fetching" /\ lock # "free") => ENABLED HolderStep

\* a TransactionByHash call is in flight while the dispatch loop holds s.lock and
\* is about to append a newly observed fact
C7_Witness ==
    /\ \E j \in DOMAIN jobs : jobs[j].state = "fetching"
    /\ dispatchPc = "append"
    /\ lock = "dispatch"

\* C8: after a transport failure of TransactionByHash the fact is still in the
\* pending queue, or a later processMemoryPages attempt for it exists.
C8_FailedFactStillPending ==
    \A j \in DOMAIN jobs :
        jobs[j].state = "failed" =>
            \/ InQueue(jobs[j].fact)
            \/ \E k \in DOMAIN jobs : k > j /\ jobs[k].fact = jobs[j].fact

(***************************************************************************)
(* Properties of loadEvents (specification LoadSpec)                       *)
(***************************************************************************)
Floor == initialBlockForStarknetContract(chainId)

\* how often the log of block b was sent on eventChan in a phase
Count(b, phase) ==
    Cardinality({n \in DOMAIN emitted : emitted[n].block = b /\ emitted[n].phase = phase})

\* C9: with every FilterLogs call succeeding, a head above the floor and the logs
\* placed in blocks floor..head, the backfill loop has sent, when it ends, exactly
\* the decodable ones of the logs that match the query's topics, each exactly
\* once, the logs of window-boundary blocks included.
C9_BackfillExhaustive ==
    (/\ loadPc \in {"subscribe", "live"}
     /\ ~filterFailed
     /\ Floor < latestBlockNumber
     /\ \A b \in logBlocks : Floor <= b /\ b <= latestBlockNumber)
    => /\ \A b \in (logBlocks \ offTopic) \ undecodable : Count(b, "backfill") = 1
       /\ \A n \in DOMAIN emitted :
             emitted[n].phase = "backfill"
                => emitted[n].block \in (logBlocks \ offTopic) \ undecodable

\* C10: with H the head read at the start (above the floor), once the live tail
\* of an open subscription has caught up every decodable log of a watched event
\* at a block <= H was sent by backfill and not by the subscription, and every
\* such log at a block > H by the subscription exactly once and not by backfill;
\* the log at H itself was sent exactly once.
C10_LiveTailContinuity ==
    (/\ loadPc = "live"
     /\ sub = "open"
     /\ hLog = << >>
     /\ vLog = << >>
     /\ ~filterFailed
     /\ Floor < latestBlockNumber)
    => \A b \in (logBlocks \ offTopic) \ undecodable :
          b <= chainHead =>
             IF b <= latestBlockNumber
             THEN /\ Count(b, "backfill") >= 1
                  /\ Count(b, "live") = 0
                  /\ b = latestBlockNumber => Count(b, "backfill") = 1
             ELSE /\ Count(b, "backfill") = 0
                  /\ Count(b, "live") = 1

\* C11: when a FilterLogs call of the backfill has failed, loadEvents is either
\* still in the backfill loop at that window (a retry) or has returned with an
\* error; it is never at the subscription or in the live tail with that window
\* and the later ones unfetched.
C11_FailedWindowRetriedOrAborted ==
    filterFailed => /\ loadPc \in {"backfill", "failed"}
                    /\ loadPc = "backfill" => i < latestBlockNumber

\* C12: after sub.Err() has reported an error and loadEvents has taken it, the
\* subscription is open again: the live tail never goes on with a subscription
\* that delivers nothing any more.
C12_ResubscribedAfterError ==
    loadPc = "live" => sub # "dead"

\* C13: a log that cannot be decoded is skipped and nothing else is: what
\* loadEvents has sent, followed by what it has decoded and is about to send, is,
\* in order, exactly the decodable ones of the logs it was handed by FilterLogs
\* and by the subscription, those handed over after an undecodable log of the
\* same window or subscription included.
C13_DecodeErrorSkipsOneLog ==
    emitted \o Sent(starknetLogs, "backfill") \o Sent(vLog, "live")
        = SelectSeq(fetched, LAMBDA e : e.block \notin undecodable)

\* an undecodable log was handed over in one window, a decodable one after it in
\* the same window, and the later one was sent
C13_Witness ==
    \E n \in DOMAIN fetched :
        /\ n + 1 \in DOMAIN fetched
        /\ fetched[n].phase = "backfill" /\ fetched[n + 1].phase = "backfill"
        /\ fetched[n].block \in undecodable
        /\ fetched[n + 1].block \notin undecodable
        /\ \E k \in 0..MaxWindows :
              /\ Floor + k * MaxChunk <= fetched[n].block
              /\ fetched[n].block < fetched[n + 1].block
              /\ fetched[n + 1].block <= Floor + (k + 1) * MaxChunk
        /\ \E m \in DOMAIN emitted : emitted[m].block = fetched[n + 1].block

\* the position at which the log of block b was first sent on eventChan
FirstSent(b) ==
    CHOOSE n \in DOMAIN emitted :
        /\ emitted[n].block = b
        /\ \A m \in DOMAIN emitted : emitted[m].block = b => n <= m

\* C14: the events sent on eventChan follow the on-chain log order: of two logs
\* that were both sent, the one that is earlier on the chain was received first,
\* whichever windows or phases (backfill, live tail) sent them.
C14_OnChainOrder ==
    \A n, m \in DOMAIN emitted :
        emitted[n].block < emitted[m].block
            => FirstSent(emitted[n].block) < FirstSent(emitted[m].block)

(***************************************************************************)
(* Properties of fastSync (specification SyncSpec)                         *)
(***************************************************************************)
\* C15: the heights fastSync's goroutines store under latestBlockSynced never
\* go down, however the goroutines of the blocks are interleaved.
C15_CheckpointNeverRegresses ==
    \A n, m \in DOMAIN saves : n < m => saves[n] <= saves[m]

\* C16: the checkpoint of a block is stored only after every deployed contract
\* of the block's update was processed; a goroutine whose update met a GetCode
\* error or an unparsable address does not store the checkpoint.
C16_SavedOnlyAfterAllContracts ==
    \A j \in DOMAIN syncJobs :
        syncJobs[j].state = "saved"
            => syncJobs[j].processed = Len(syncJobs[j].DeployedContracts)

\* C17: blockIterator is past a block only when the checkpoint of that block
\* has been stored.
C17_IteratorBehindCheckpoint ==
    \A j \in DOMAIN syncJobs :
        syncJobs[j].block < blockIterator => syncJobs[j].state = "saved"

\* C20: when the update fetched has the block hash fastSync handled last,
\* updateStateForOneBlock returns its two inputs unchanged and starts no
\* goroutine, so that no checkpoint is stored for it: every goroutine belongs
\* to an update whose block hash differed from lastBlockHash.
C20_SameBlockHashIsNoOp ==
    /\ (syncPc = "compare" /\ ~update.err /\ update.BlockHash = lastBlockHash)
           => /\ newValueForIterator = blockIterator
              /\ newBlockHash = lastBlockHash
    /\ \A j \in DOMAIN syncJobs : syncJobs[j].BlockHash # syncJobs[j].lastBlockHash
    /\ Len(saves) <= Len(syncJobs)

\* the update of a block was materialized and its checkpoint stored, the next
\* answer of the feeder gateway had the same block hash, and
\* updateStateForOneBlock has returned
C20_Witness ==
    /\ syncPc = "compare"
    /\ ~update.err
    /\ update.BlockHash = lastBlockHash
    /\ \E j \in DOMAIN syncJobs :
          /\ syncJobs[j].BlockHash = update.BlockHash
          /\ syncJobs[j].state = "saved"

(***************************************************************************)
(* Properties of the checkpoint functions (specification StoreSpec)        *)
(***************************************************************************)
\* C18: a latestBlockQueried that follows a successful
\* updateLatestBlockQueried(h) of the same pair (methods of Synchronizer, or
\* functions of the package) and whose Get succeeds returns exactly h.
C18_RoundTrip ==
    (/\ lastSave # NoSave /\ ~lastSave.err
     /\ lastLoad # NoLoad /\ ~lastLoad.getErr
     /\ lastLoad.impl = lastSave.impl)
    => /\ ~lastLoad.err
       /\ lastLoad.height = lastSave.block

\* the four cases of latestBlockQueried that C19's statements share
C19_Common ==
    lastLoad # NoLoad =>
        /\ lastLoad.getErr => (lastLoad.err /\ lastLoad.height = 0)
        /\ (~lastLoad.getErr /\ ~lastLoad.stored.present)
               => (~lastLoad.err /\ lastLoad.height = 0)
        /\ (~lastLoad.getErr /\ lastLoad.stored.present /\ Len(lastLoad.stored.bytes) = 8)
               => (~lastLoad.err /\ PutUint64(lastLoad.height) = lastLoad.stored.bytes)

\* C19 (as stated): latestBlockQueried returns 0 and no error when the key is
\* absent, the stored height when 8 bytes are stored, and an error with
\* height 0 when Get fails or the stored value is not 8 bytes long.
C19_LoadCases ==
    /\ C19_Common
    /\ (lastLoad # NoLoad /\ ~lastLoad.getErr /\ lastLoad.stored.present
            /\ Len(lastLoad.stored.bytes) # 8)
           => (lastLoad.err /\ lastLoad.height = 0)

\* C19 (amended): latestBlockQueried returns 0 and no error when the key is
\* absent, an error with height 0 when Get fails or fewer than 8 bytes are
\* stored, and otherwise, without error, the height that the first 8 stored
\* bytes encode.
C19_LoadCasesShortOnly ==
    /\ C19_Common
    /\ (lastLoad # NoLoad /\ ~lastLoad.getErr /\ lastLoad.stored.present
            /\ Len(lastLoad.stored.bytes) < 8)
           => (lastLoad.err /\ lastLoad.height = 0)
    /\ (lastLoad # NoLoad /\ ~lastLoad.getErr /\ lastLoad.stored.present
            /\ Len(lastLoad.stored.bytes) > 8)
           => (~lastLoad.err
               /\ PutUint64(lastLoad.height) = SubSeq(lastLoad.stored.bytes, 1, 8))

\* latestBlockQueried was called on a stored value of more than 8 bytes
C19_Witness ==
    /\ lastLoad # NoLoad
    /\ ~lastLoad.getErr
    /\ lastLoad.stored.present
    /\ Len(lastLoad.stored.bytes) > 8

(***************************************************************************)
(* Properties of contractState (specification CommitSpec)                  *)
(***************************************************************************)
\* C21: when the three Digest calls succeed, contractState(contractHash,
\* storageRoot) is Digest(Digest(Digest(contractHash, storageRoot), 0), 0).
C21_ThreeChainedDigests ==
    commitPc = "returned" => val = <<<<<<contractHash, storageRoot>>, Zero>>, Zero>>

\* contractState has returned a value
C21_Witness ==
    /\ commitPc = "returned"
    /\ val # NoVal
    /\ contractHash # storageRoot

\* C22: when one of the Digest calls of contractState fails, the caller gets
\* no commitment and the update is aborted without a panic: the call never
\* ends in a panic.
C22_DigestFailureAbortsWithoutPanic ==
    /\ failAt # 0 => commitPc \in {"call", "aborted"}
    /\ commitPc = "aborted" => val = NoVal

(***************************************************************************)
(* Properties of Close (specification CloseSpec)                           *)
(***************************************************************************)
\* C23: once Close has been called loadEvents issues no further FilterLogs
\* query and opens no subscription, and the client is closed only when no log
\* handed to the subscription is still waiting to be decoded.
C23_CleanShutdown ==
    [][/\ closeCalled => /\ queried' = queried
                         /\ loadPc = "subscribe" => loadPc' # "live"
       /\ (~clientClosed /\ clientClosed') => hLog = << >>]_vars

(***************************************************************************)
(* Properties of the backfill windows (specification LoadSpec)             *)
(***************************************************************************)
\* the number of windows of MaxChunk blocks from the floor that reach the head
\* read at the start
RECURSIVE WindowsUpTo(_, _)
WindowsUpTo(from, head) ==
    IF from >= head THEN 0 ELSE 1 + WindowsUpTo(from + MaxChunk, head)

\* C29: with no query failing, when the backfill loop ends it has issued one
\* FilterLogs query per window, the k-th for the blocks floor + (k-1) * MaxChunk
\* to floor + k * MaxChunk, as many as it takes to reach the head read at the
\* start: with the floor below the head every block from the floor to that head
\* is in a window, and with the floor at or above the head no query is issued.
C29_BackfillWindows ==
    (loadPc \in {"subscribe", "live"} /\ ~filterFailed)
    => /\ Len(queried) = WindowsUpTo(Floor, latestBlockNumber)
       /\ \A k \in DOMAIN queried :
             /\ queried[k].FromBlock = Floor + (k - 1) * MaxChunk
             /\ queried[k].ToBlock = Floor + k * MaxChunk
       /\ \A b \in Blocks(Floor) :
             (Floor < latestBlockNumber /\ b <= latestBlockNumber)
                => \E k \in DOMAIN queried :
                      queried[k].FromBlock <= b /\ b <= queried[k].ToBlock
       /\ Floor >= latestBlockNumber => queried = << >>

\* the backfill has ended after two windows, none of its queries failing
C29_Witness ==
    /\ loadPc \in {"subscribe", "live"}
    /\ ~filterFailed
    /\ Len(queried) = 2

(***************************************************************************)
(* Properties of the watched addresses (specification LoadSpec)            *)
(***************************************************************************)
\* C24: the addresses loadEvents watches and the floor its backfill starts at
\* are those of the chain: on chain ID 1 the mainnet verifier, registry and
\* floor 13627000, on any other chain ID the other verifier, registry and
\* floor 5853000, under whatever configuration the node runs.
C24_SelectedByChainId ==
    (loadPc = "backfill" /\ ~chainId.err /\ queried = << >>)
    => /\ gpsStatementVerifierAddress = getGpsVerifierContractAddress(chainId)
       /\ getGpsVerifierContractAddress(chainId) =
             IF chainId.id = 1 THEN "0xa739B175325cCA7b71fcB51C3032935Ef7Ac338F"
             ELSE "0x5EF3C980Bf970FcE5BbC217835743ea9f0388f4F"
       /\ \A config \in ConfigAddresses :
             memoryPageFactRegistryAddress(config) = getMemoryPagesContractAddress(chainId)
       /\ getMemoryPagesContractAddress(chainId) =
             IF chainId.id = 1 THEN "0x96375087b2F6eFc59e5e0dd5111B4d090EBFDD8B"
             ELSE "0x743789ff2fF82Bfb907009C9911a7dA636D34FA7"
       /\ i = IF chainId.id = 1 THEN 13627000 ELSE 5853000

(***************************************************************************)
(* Properties of the dispatch loop (specification Spec)                    *)
(***************************************************************************)
\* C25: an entry of GpsVerifier or of MemoryPageHash, once recorded, keeps its
\* value in every later step.
C25_TableEntriesImmutable ==
    [][/\ \A f \in DOMAIN GpsVerifier :
             f \in DOMAIN GpsVerifier' /\ GpsVerifier'[f] = GpsVerifier[f]
       /\ \A p \in DOMAIN MemoryPageHash :
             p \in DOMAIN MemoryPageHash' /\ MemoryPageHash'[p] = MemoryPageHash[p]]_vars

\* table d with the value v under key k and every other entry as it was
WithEntry(d, k, v) == [x \in (DOMAIN d) \cup {k} |-> IF x = k THEN v ELSE d[x]]

\* C30: a step changes GpsVerifier only for an event with factHash and
\* pagesHashes, by the entry for that fact; MemoryPageHash only for an event
\* with memoryHash, by the entry page hash -> transaction hash of the log;
\* s.facts grows only for an event with stateTransitionFact, by that fact at
\* its end; and a step that changes one of the three for a kind of event leaves
\* the structures of the other kinds as they are. A step for an event with none
\* of these fields therefore changes none of the three.
C30_DispatchFrame ==
    [][/\ GpsVerifier' # GpsVerifier
            => /\ Has(l, "factHash") /\ Has(l, "pagesHashes")
               /\ GpsVerifier' = WithEntry(GpsVerifier, l.event.factHash, l.event.pagesHashes)
               /\ facts' = facts
               /\ ~Has(l, "memoryHash") => MemoryPageHash' = MemoryPageHash
       /\ MemoryPageHash' # MemoryPageHash
            => /\ Has(l, "memoryHash")
               /\ MemoryPageHash' =
                     WithEntry(MemoryPageHash, l.event.memoryHash, l.transactionHash)
               /\ facts' = facts
               /\ ~(Has(l, "factHash") /\ Has(l, "pagesHashes")) => GpsVerifier' = GpsVerifier
       /\ Len(facts') > Len(facts)
            => /\ Has(l, "stateTransitionFact")
               /\ facts' = Append(facts, l.event.stateTransitionFact)
               /\ GpsVerifier' = GpsVerifier
               /\ MemoryPageHash' = MemoryPageHash]_vars

\* an event of each kind has been dispatched
C30_Witness ==
    /\ GpsVerifier # EmptyDictionary
    /\ MemoryPageHash # EmptyDictionary
    /\ facts # << >>

(***************************************************************************)
(* Claims about the pending queue under the interleaving of the dispatch    *)
(* loop and the poller (specification Spec)                                 *)
(***************************************************************************)
\* C31: in every reachable state s.facts is a contiguous suffix of the sequence
\* of facts observed so far, in observation order; every step that changes the
\* queue is either the dispatch loop appending the fact it handles at the tail or
\* the poller removing the head, so no interleaving reorders, duplicates or drops
\* a fact from the middle.
C31_QueueIsSuffixOfObserved ==
    /\ [](\E k \in 0..Len(observed) : facts = SubSeq(observed, k + 1, Len(observed)))
    /\ [][\/ facts' = facts /\ observed' = observed
          \/ /\ dispatchPc = "append"
             /\ lock = "dispatch"
             /\ facts' = Append(facts, l.event.stateTransitionFact)
             /\ observed' = Append(observed, l.event.stateTransitionFact)
          \/ /\ pollerPc = "pop"
             /\ lock = "poller"
             /\ facts # << >>
             /\ facts' = Tail(facts)
             /\ observed' = observed]_vars

\* two different facts were observed, the first has been removed and the second
\* is what the queue holds
C31_Witness ==
    /\ Len(observed) = 2
    /\ observed[1] # observed[2]
    /\ facts = <<observed[2]>>
    /\ pollerPc = "returned"

\* C32: the poller tests len(s.facts) and GpsVerifier.Exist(s.facts[0]) without
\* s.lock, yet from that test on the head of the queue stays the fact it tested:
\* the test found that fact's page-hash set, and the fact handed to
\* processMemoryPages and then popped under the lock is that same fact, whatever
\* the dispatch loop does in between.
C32_PoppedHeadIsCheckedHead ==
    /\ [](pollerPc \in {"lock", "go", "pop"} =>
            facts # << >> /\ facts[1] = checked.fact)
    /\ [][(pollerPc = "tick" /\ pollerPc' = "lock") =>
            /\ checked'.fact = facts[1]
            /\ DictExist(GpsVerifier, facts[1])]_vars
    /\ [][(pollerPc = "go" /\ pollerPc' = "pop") =>
            /\ Len(jobs') = Len(jobs) + 1
            /\ jobs'[Len(jobs')].fact = checked.fact
            /\ jobs'[Len(jobs')].pagesKnown]_vars
    /\ [][(pollerPc = "pop" /\ pollerPc' # "pop") =>
            /\ facts[1] = checked.fact
            /\ facts' = Tail(facts)]_vars

\* the dispatch loop appended a fact between the poller's test, which saw a queue
\* of one, and the poller's critical section, which has started
\* processMemoryPages with the tested fact and is about to pop it
C32_Witness ==
    /\ pollerPc = "pop"
    /\ checked.len = 1
    /\ Len(facts) = 2
    /\ facts[2] # facts[1]
    /\ jobs[Len(jobs)].fact = checked.fact

(***************************************************************************)
(* Claim about the return of FetchStarknetState (specification StateSpec)   *)
(***************************************************************************)
\* C33 (as claimed): FetchStarknetState returns only after the ingestion
\* goroutine has closed the event channel because loadEvents returned an error,
\* always with a non-nil error; so UpdateState never returns nil and never
\* reaches its FetchStarknetFact stage.
C33_ReturnsOnlyAfterClose ==
    /\ fetchPc = "returned" => (eventClosed /\ fetchErr # Nil)
    /\ eventClosed => (loadPc = "failed" /\ sub = "none")
    /\ updatePc # "fetchFact"
    /\ updatePc = "returned" => updateErr # Nil

\* C33 (amended): FetchStarknetState returns either before it starts its
\* goroutines, with the error of GetContractAddresses or of a loadContract call,
\* or after the ingestion goroutine has closed the event channel because
\* loadEvents returned an error (BlockNumber or SubscribeFilterLogs failed, so no
\* subscription was ever open); in both cases with a non-nil error. So
\* UpdateState never returns nil and never reaches its FetchStarknetFact stage.
C33_ReturnsOnlyWithError ==
    /\ fetchPc = "returned" =>
          /\ fetchErr # Nil
          /\ \/ fetchErr \in SetupErrors /\ loadPc = "idle" /\ ~eventClosed
             \/ fetchErr = EventClosedError /\ eventClosed
    /\ eventClosed => (loadPc = "failed" /\ sub = "none")
    /\ updatePc # "fetchFact"
    /\ updatePc = "returned" => (updateErr # Nil /\ updateErr = fetchErr)

\* loadEvents sent a backfilled log, then SubscribeFilterLogs failed, the channel
\* was closed and UpdateState returned the dispatch loop's error
C33_Witness ==
    /\ updatePc = "returned"
    /\ updateErr = EventClosedError
    /\ eventClosed
    /\ emitted # << >>

(***************************************************************************)
(* Claim about FetchStarknetFact (specification FactSpec)                   *)
(***************************************************************************)
\* the windows whose query succeeded, in the order of the queries
OkWindows == SelectSeq(queried, LAMBDA q : q.ok)

\* how many of the first n queries succeeded
OkBefore(n) == Cardinality({m \in 1..(n - 1) : queried[m].ok})

\* what the windows ws put on the channel when each sends its decodable logs
RECURSIVE FactsOf(_)
FactsOf(ws) ==
    IF ws = << >> THEN << >>
    ELSE FactsSent(Decoded(Head(ws).logs)) \o FactsOf(Tail(ws))

\* C34: FetchStarknetFact returns nil exactly when every window from the floor to
\* the head read at entry has been queried successfully; the windows are queried
\* in order, and what has been sent on the channel, followed by what the window in
\* hand has still to send, is, window after window, the decodable logs of each
\* successfully queried window, each once; i moves on after a window's last
\* send, and nothing is left to send at the return. A window whose
\* FilterLogs call fails is queried again: the failure leaves i, the channel and
\* the loop where they are, so no window is skipped and the function cannot
\* return while a window keeps failing.
C34_WindowsInOrderRetried ==
    /\ [](/\ \A n \in DOMAIN queried :
               /\ queried[n].FromBlock = Floor + OkBefore(n) * MaxChunk
               /\ queried[n].ToBlock = queried[n].FromBlock + MaxChunk
               /\ queried[n].FromBlock < latestBlockNumber
          /\ \A n \in DOMAIN queried : queried[n].ok =>
               /\ \A b \in logBlocks :
                    (queried[n].FromBlock <= b /\ b <= queried[n].ToBlock
                        /\ b <= latestBlockNumber)
                    => Cardinality({k \in DOMAIN queried[n].logs :
                                        queried[n].logs[k] = b}) = 1
               /\ \A k \in DOMAIN queried[n].logs :
                    /\ queried[n].logs[k] \in logBlocks
                    /\ queried[n].FromBlock <= queried[n].logs[k]
                    /\ queried[n].logs[k] <= queried[n].ToBlock
                    /\ \A k2 \in DOMAIN queried[n].logs :
                          k < k2 => queried[n].logs[k] < queried[n].logs[k2]
          /\ factSent \o FactsSent(starknetLogs) = FactsOf(OkWindows)
          /\ factPc = "loop" =>
               i = IF starknetLogs = << >>
                   THEN Floor + Len(OkWindows) * MaxChunk
                   ELSE Floor + (Len(OkWindows) - 1) * MaxChunk
          /\ factPc = "returned" => starknetLogs = << >>
          /\ factPc = "returned" =>
               IF factErr = Nil
               THEN Floor + Len(OkWindows) * MaxChunk >= latestBlockNumber
               ELSE factErr \in FactErrors /\ queried = << >>)
    /\ [][/\ (factPc = "loop" /\ i >= latestBlockNumber) => queried' = queried
          /\ (factPc = "loop" /\ factPc' = "returned") =>
                (factErr' = Nil /\ i >= latestBlockNumber)
          /\ (Len(queried') > Len(queried) /\ ~queried'[Len(queried')].ok) =>
                /\ i' = i
                /\ factPc' = "loop"
                /\ factSent' = factSent]_vars

\* a run that returned nil after two windows, one of them queried again after a
\* failed call, with a log passed over as undecodable and a fact sent
C34_Witness ==
    /\ factPc = "returned"
    /\ factErr = Nil
    /\ Len(OkWindows) >= 2
    /\ Failures # {}
    /\ factSent # << >>
    /\ \E n \in DOMAIN queried : \E k \in DOMAIN queried[n].logs :
          queried[n].logs[k] \in undecodable

(***************************************************************************)
(* Claim about the contract hash keys (specification HashSpec)              *)
(***************************************************************************)
\* the first n characters of s are all '0' or 'x'
LeadingOnly(s, n) == \A k \in 1..n : s[k] \in {"0", "x"}

\* k1 and k2 are the same string behind some leading '0' and 'x' characters
DifferOnlyInLeading(k1, k2) ==
    \E n1 \in 0..Len(k1), n2 \in 0..Len(k2) :
        /\ LeadingOnly(k1, n1)
        /\ LeadingOnly(k2, n2)
        /\ SubSeq(k1, n1 + 1, Len(k1)) = SubSeq(k2, n2 + 1, Len(k2))

\* remove0x maps key to a normal form: "0", or a string that starts with neither
\* '0' nor 'x'; it leaves that form as it is; a key of nothing but '0' and 'x'
\* goes to "0"
NormalisedBy0x(key) ==
    LET n == remove0x(key)
    IN /\ n = <<"0">> \/ (n # << >> /\ n[1] \notin {"0", "x"})
       /\ remove0x(n) = n
       /\ LeadingOnly(key, Len(key)) => n = <<"0">>

\* C35: remove0x is idempotent and its result is "0" or starts with neither '0'
\* nor 'x', the empty and the all-'0'/'x' key giving "0"; a value stored by
\* storeContractHash(k1, v) is kept under remove0x(k1), and loadContractHash(k2)
\* returns v whenever k1 and k2 differ only in leading '0'/'x' characters.
C35_NormalisedKeys ==
    /\ hashStored.made =>
          /\ NormalisedBy0x(hashStored.key)
          /\ DOMAIN contractHashes = {remove0x(hashStored.key)}
          /\ contractHashes[remove0x(hashStored.key)] = hashStored.value
    /\ hashLoaded.made => NormalisedBy0x(hashLoaded.key)
    /\ (hashStored.made /\ hashLoaded.made
          /\ DifferOnlyInLeading(hashStored.key, hashLoaded.key))
       => hashLoaded.value = hashStored.value

\* a value stored under "0xa" has been loaded with the key "a"
C35_Witness ==
    /\ hashStored = [made |-> TRUE, key |-> <<"0", "x", "a">>, value |-> 2]
    /\ hashLoaded = [made |-> TRUE, key |-> <<"a">>, value |-> 2]

====
